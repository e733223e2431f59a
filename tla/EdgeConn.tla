------------------------------ MODULE EdgeConn ------------------------------
(***************************************************************************)
(* A connection that is set up (zt/edge/network/conn.go; module Handshake  *)
(* has the set-up): what Read makes of the messages that reach it through  *)
(* its read queue (noopSeq) while deadlines are set, the application or    *)
(* the channel closes the connection, and the router says that it is       *)
(* closed.  Without SDK flow control all messages come from the mux; with  *)
(* it, data comes from the xgress's tx goroutine and only the router's     *)
(* state closed from the mux.  Deadlines are none, to come, or past.       *)
(***************************************************************************)
EXTENDS Integers, Sequences, SequencesExt

CONSTANTS Scripts,     \* what the other side sends: sequences of messages
          Depth,       \* capacity of the read queue
          ReadSizes,   \* sizes of the buffers given to Read
          MaxDeadlines \* bound: calls of SetReadDeadline

VARIABLES
    conn,      \* the edgeConn: its fields, and whether the mux has it
    script,    \* what the other side sends
    sent,      \* how much of it has been handed to the connection
    putting,   \* by its two producers, the message each waits to put
    queue,     \* readQ.ch
    queueDone, \* readQ.closeNotify
    deadline,  \* readQ.deadline
    reader,    \* the goroutine in Read, and the timer it waits for
    setter,    \* the goroutine in SetReadDeadline
    out,       \* the bytes Read has returned
    eof,       \* Read has returned io.EOF
    lost       \* history: closed here, by the channel, or out of order by the router

connVars == <<conn, script, sent, putting, queue, queueDone, deadline, reader, setter,
              out, eof, lost>>

Nothing == [type |-> "none"]
\* A data message: its parts, and its flags.
Data(parts, multipart, fin) ==
    [type |-> "data", parts |-> parts, multipart |-> multipart, fin |-> fin]
CryptoHeader == [type |-> "header", parts |-> <<>>, multipart |-> FALSE, fin |-> FALSE]
OtherMessage == [type |-> "other", parts |-> <<>>, multipart |-> FALSE, fin |-> FALSE]
StateClosed == [type |-> "closed", parts |-> <<>>, multipart |-> FALSE, fin |-> FALSE]

\* The other side sends a crypto header exactly when it has sent its key.
Encrypted == script # <<>> /\ script[1] = CryptoHeader

ConnInit ==
    /\ script \in Scripts /\ sent = 0
    /\ \E xg \in BOOLEAN :
         conn = [xg |-> xg, rxKey |-> Encrypted, closed |-> FALSE, readFIN |-> FALSE,
                 sentFIN |-> FALSE, inBuffer |-> <<>>, registered |-> TRUE]
    /\ putting = [p \in {"mux", "tx"} |-> Nothing]
    /\ queue = <<>> /\ queueDone = FALSE /\ deadline = "none"
    /\ reader = [pc |-> "idle", timer |-> "none", size |-> 0]
    /\ setter = [pc |-> "idle", calls |-> 0]
    /\ out = <<>> /\ eof = FALSE /\ lost = FALSE

-----------------------------------------------------------------------------
(* Close.                                                                    *)

\* close: without SDK flow control the mux forgets the connection here, with it
\* when the xgress closes.
Shut(c) == [c EXCEPT !.closed = TRUE, !.readFIN = TRUE, !.sentFIN = TRUE,
                     !.registered = @ /\ c.xg]

\* Close by the application, or HandleMuxClose by the channel, which also closes
\* the xgress.
Close ==
    /\ ~conn.closed
    /\ conn' = Shut(conn) /\ lost' = TRUE
    /\ UNCHANGED <<script, sent, putting, queue, queueDone, deadline, reader, setter, out, eof>>

\* HandleXgressClose, once the connection and the xgress's two sides are done.
HandleXgressClose ==
    /\ conn.xg /\ conn.closed /\ conn.registered
    /\ conn' = [conn EXCEPT !.registered = FALSE]
    /\ UNCHANGED <<script, sent, putting, queue, queueDone, deadline, reader, setter, out,
                   eof, lost>>

-----------------------------------------------------------------------------
(* What puts messages into the queue.                                        *)

\* AcceptMessage of the router's state closed ends the writes at once; inspect
\* and trace route requests are answered and data is queued.
AcceptMessage(m) ==
    IF m = StateClosed THEN [conn EXCEPT !.sentFIN = TRUE] ELSE conn

\* The next message reaches the mux goroutine, or the tx goroutine of the xgress,
\* which ends with its queue. A state closed passes what the xgress still holds.
Receive(p) ==
    LET m == script[sent + 1] IN
    /\ sent < Len(script) /\ putting[p] = Nothing
    /\ IF p = "tx" THEN conn.xg /\ m # StateClosed /\ ~queueDone ELSE ~conn.xg
    /\ sent' = sent + 1
    /\ IF m = StateClosed /\ conn.closed THEN UNCHANGED <<putting, conn>>
       ELSE putting' = [putting EXCEPT ![p] = m] /\ conn' = AcceptMessage(m)
    /\ UNCHANGED <<script, queue, queueDone, deadline, reader, setter, out, eof, lost>>

ReceiveStateClosed ==
    /\ conn.xg /\ ~conn.closed
    /\ script # <<>> /\ Last(script) = StateClosed
    /\ script' = Front(script)
    /\ putting' = [putting EXCEPT !["mux"] = StateClosed]
    /\ conn' = AcceptMessage(StateClosed)
    /\ lost' = (lost \/ sent < Len(script) - 1 \/ putting["tx"] # Nothing)
    /\ UNCHANGED <<sent, queue, queueDone, deadline, reader, setter, out, eof>>

\* PutSequenced waits for room or for the connection to be closed, not for the
\* queue's own close. A WritePayload that fails ends tx.
PutSequenced(p) ==
    /\ putting[p] # Nothing
    /\ \/ /\ Len(queue) < Depth
          /\ queue' = Append(queue, putting[p])
          /\ UNCHANGED queueDone
       \/ /\ conn.closed
          /\ queueDone' = (queueDone \/ p = "tx")
          /\ UNCHANGED queue
    /\ putting' = [putting EXCEPT ![p] = Nothing]
    /\ UNCHANGED <<conn, script, sent, deadline, reader, setter, out, eof, lost>>

\* FlowFromFabricToXgressClosed: tx has written what it had, or the xgress is
\* closed, and closes the queue.
FlowFromFabricToXgressClosed ==
    /\ conn.xg /\ putting["tx"] = Nothing /\ ~queueDone
    /\ conn.closed \/ \A i \in (sent + 1)..Len(script) : script[i] = StateClosed
    /\ queueDone' = TRUE
    /\ UNCHANGED <<conn, script, sent, putting, queue, deadline, reader, setter, out, eof, lost>>

-----------------------------------------------------------------------------
(* Read.                                                                     *)

Returns(bytes) ==
    /\ out' = out \o bytes
    /\ reader' = [pc |-> "idle", timer |-> "none", size |-> 0]
ReturnsEOF == Returns(<<>>) /\ eof' = TRUE

Prefix(n, s) == SubSeq(s, 1, IF n < Len(s) THEN n ELSE Len(s))
Rest(n, s) == SubSeq(s, n + 1, Len(s))
\* The chunks that stay when n bytes of the first are taken.
Remaining(n, chunks) ==
    IF Len(Rest(n, chunks[1])) = 0 THEN Tail(chunks)
    ELSE <<Rest(n, chunks[1])>> \o Tail(chunks)

\* Read looks at closed, the buffer and readFIN before it waits for a message.
StartRead(size) ==
    /\ reader.pc = "idle" /\ ~eof
    /\ \/ conn.closed /\ ReturnsEOF /\ UNCHANGED conn
       \/ /\ ~conn.closed /\ conn.inBuffer # <<>>
          /\ Returns(Prefix(size, conn.inBuffer[1]))
          /\ conn' = [conn EXCEPT !.inBuffer = Remaining(size, @)]
          /\ UNCHANGED eof
       \/ /\ ~conn.closed /\ conn.inBuffer = <<>>
          /\ IF conn.readFIN THEN ReturnsEOF
             ELSE /\ reader' = [pc |-> "load", timer |-> "none", size |-> size]
                  /\ UNCHANGED <<out, eof>>
          /\ UNCHANGED conn
    /\ UNCHANGED <<script, sent, putting, queue, queueDone, deadline, setter, lost>>

\* GetNext: readInProgress is set, then the deadline is loaded and a timer set.
LoadDeadline ==
    /\ reader.pc = "load"
    /\ reader' = [reader EXCEPT !.pc = "select", !.timer = deadline]
    /\ UNCHANGED <<conn, script, sent, putting, queue, queueDone, deadline, setter, out, eof,
                   lost>>

\* What the other side wrote before its FIN or the router's state closed.
Ending(i) == script[i].type = "closed" \/ script[i].fin
Written ==
    LET last == IF \E i \in DOMAIN script : Ending(i)
                THEN CHOOSE i \in DOMAIN script : Ending(i) /\ \A j \in 1..(i - 1) : ~Ending(j)
                ELSE Len(script)
    IN  FlattenSeq([i \in 1..last |-> FlattenSeq(script[i].parts)])

\* Pull decrypts a message only if it is the next of the stream.
Decrypts(m) == ~conn.rxKey /\ (Encrypted => IsPrefix(out \o FlattenSeq(m.parts), Written))

\* A message from the queue: the FIN flag, a state closed, the crypto header, and
\* data in one piece or in parts, or an error if it cannot be decrypted.
GotMessage ==
    LET m == Head(queue)
        fin == [conn EXCEPT !.readFIN = @ \/ m.fin]
        chunks == IF m.multipart THEN m.parts ELSE <<FlattenSeq(m.parts)>>
        again == /\ reader' = IF conn'.readFIN
                              THEN [pc |-> "idle", timer |-> "none", size |-> 0]
                              ELSE [reader EXCEPT !.pc = "load", !.timer = "none"]
                 /\ eof' = conn'.readFIN /\ UNCHANGED out IN
    /\ queue' = Tail(queue)
    /\ \/ /\ m = StateClosed
          /\ conn' = IF ~conn.xg \/ conn.sentFIN THEN Shut(conn) ELSE [conn EXCEPT !.readFIN = TRUE]
          /\ again
       \/ m.type = "other" /\ conn' = fin /\ again
       \/ m = CryptoHeader /\ conn' = [fin EXCEPT !.rxKey = FALSE] /\ again
       \/ /\ m.type = "data"
          /\ IF FlattenSeq(m.parts) = <<>> /\ fin.readFIN
             THEN ReturnsEOF /\ conn' = fin
             ELSE IF ~Decrypts(m)
             THEN Returns(<<>>) /\ conn' = fin /\ UNCHANGED eof
             ELSE /\ Returns(Prefix(reader.size, chunks[1]))
                  /\ conn' = [fin EXCEPT !.inBuffer = @ \o Remaining(reader.size, chunks)]
                  /\ UNCHANGED eof

\* Mutant: a queue that is closed is not drained.
SelectClosedFirst ==
    /\ reader.pc = "select"
    /\ \/ queue # <<>> /\ GotMessage
       \/ /\ conn.closed \/ queueDone
          /\ ReturnsEOF /\ conn' = [conn EXCEPT !.readFIN = TRUE] /\ UNCHANGED queue
       \/ /\ queue = <<>> /\ reader.timer = "past"
          /\ Returns(<<>>) /\ UNCHANGED <<conn, queue, eof>>
    /\ UNCHANGED <<script, sent, putting, queueDone, deadline, setter, lost>>

\* The select of GetNext: a message, also when the queue is closed or the time is
\* up; the end of the queue; or a timeout.
Select ==
    /\ reader.pc = "select"
    /\ \/ queue # <<>> /\ GotMessage
       \/ /\ queue = <<>> /\ (conn.closed \/ queueDone)
          /\ ReturnsEOF /\ conn' = [conn EXCEPT !.readFIN = TRUE] /\ UNCHANGED queue
       \/ /\ queue = <<>> /\ reader.timer = "past"
          /\ Returns(<<>>) /\ UNCHANGED <<conn, queue, eof>>
    /\ UNCHANGED <<script, sent, putting, queueDone, deadline, setter, lost>>

-----------------------------------------------------------------------------
(* SetReadDeadline.                                                          *)

StoreDeadline(d) ==
    /\ setter.pc = "idle" /\ setter.calls < MaxDeadlines
    /\ deadline' = d
    /\ setter' = [pc |-> "notify", calls |-> setter.calls + 1]
    /\ UNCHANGED <<conn, script, sent, putting, queue, queueDone, reader, out, eof, lost>>


\* A read that is in progress is told, and waited for up to 5 ms, which a reader
\* needs less than to reach its select.
NotifyReader ==
    /\ setter.pc = "notify"
    /\ reader.pc # "load"
    /\ setter' = [setter EXCEPT !.pc = "idle"]
    /\ reader' = IF reader.pc = "select" THEN [reader EXCEPT !.pc = "load", !.timer = "none"]
                 ELSE reader
    /\ UNCHANGED <<conn, script, sent, putting, queue, queueDone, deadline, out, eof, lost>>

TimePasses ==
    /\ deadline = "later" \/ reader.timer = "later"
    /\ deadline' = IF deadline = "later" THEN "past" ELSE deadline
    /\ reader' = [reader EXCEPT !.timer = IF @ = "later" THEN "past" ELSE @]
    /\ UNCHANGED <<conn, script, sent, putting, queue, queueDone, setter, out, eof, lost>>

-----------------------------------------------------------------------------
Reads == LoadDeadline \/ Select
Puts == ReceiveStateClosed \/ \E p \in {"mux", "tx"} : Receive(p) \/ PutSequenced(p)

ConnNext ==
    \/ Close \/ HandleXgressClose \/ FlowFromFabricToXgressClosed \/ Puts
    \/ (\E n \in ReadSizes : StartRead(n)) \/ Reads
    \/ (\E d \in {"none", "later", "past"} : StoreDeadline(d)) \/ NotifyReader \/ TimePasses

\* Goroutines run; the application need not read, nor the other side send.
ConnFairness == WF_connVars(Reads) /\ WF_connVars(NotifyReader)

ConnSpec == ConnInit /\ [][ConnNext]_connVars /\ ConnFairness

-----------------------------------------------------------------------------
(* Properties.                                                               *)

\* However messages are split into parts and reads, and whichever of a full
\* queue, a closed queue and a deadline a read meets, Read returns the bytes in
\* the order they were written, and io.EOF only after all of them. If the
\* connection was closed on this side, or a state closed overtook data that the
\* xgress still held, the end may be missing; and after a close without an
\* xgress and encryption PutSequenced may refuse a message and take the next, which a read that
\* is in progress then returns (Read, GetNext, PutSequenced).
ReadsEverything ==
    /\ conn.xg \/ Encrypted \/ ~lost => IsPrefix(out, Written)
    /\ eof /\ ~lost => out = Written

Overdue == deadline = "past" /\ reader.pc # "idle"

=============================================================================
