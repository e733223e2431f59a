---------------------------- MODULE XgressCodec ----------------------------
(***************************************************************************)
(* How an xgress puts data on the wire (xgress/xgress.go, messages.go):    *)
(* Write cuts a buffer into packets of the MTU, UnmarshallPacketPayload    *)
(* reads a packet, and tx puts the chunks together again; payloads, acks   *)
(* and control messages as channel messages.  A byte is a number below     *)
(* 256, but for the flags byte, which is the set of the flags in it.       *)
(***************************************************************************)
EXTENDS Integers, Sequences, SequencesExt, FiniteSets, TLC

\* binary.PutUvarint and Uvarint, for numbers of at most two such bytes.
PutUvarint(n) == IF n < 128 THEN <<n>> ELSE <<128 + (n % 128), n \div 128>>
Uvarint(s) == IF s[1] < 128 THEN s[1] ELSE s[1] - 128 + 128 * s[2]
UvarintSize(s) == IF s[1] < 128 THEN 1 ELSE 2

Take(n, s) == SubSeq(s, 1, IF n < Len(s) THEN n ELSE Len(s))
Drop(n, s) == SubSeq(s, n + 1, Len(s))
Zeros(n) == [i \in 1..n |-> 0]

-----------------------------------------------------------------------------
(* Headers.                                                                  *)

\* writeU8ToBytesMap: the keys in some order, and whether they fit into room
\* bytes, of which ten must be left before each key.
WriteKey(h, k) == <<k>> \o PutUvarint(Len(h[k])) \o h[k]
writeU8ToBytesMap(h, room) ==
    FoldLeft(LAMBDA w, k :
                 [bytes |-> w.bytes \o WriteKey(h, k),
                  ok |-> /\ w.ok /\ room - Len(w.bytes) >= 10
                         /\ room - Len(w.bytes) >= Len(WriteKey(h, k))],
             [bytes |-> PutUvarint(Cardinality(DOMAIN h)), ok |-> TRUE],
             SetToSeq(DOMAIN h))

\* readU8ToBytesMap: the headers, and the bytes after them.
readU8ToBytesMap(s) ==
    FoldLeft(LAMBDA r, i :
                 LET k == r.rest[1]
                     value == Drop(1 + UvarintSize(Tail(r.rest)), r.rest)
                     size == Uvarint(Tail(r.rest))
                 IN  [headers |-> [x \in DOMAIN r.headers \cup {k} |->
                                     IF x = k THEN Take(size, value) ELSE r.headers[x]],
                      rest |-> Drop(size, value)],
             [headers |-> <<>>, rest |-> Drop(UvarintSize(s), s)],
             [i \in 1..Uvarint(s) |-> i])

-----------------------------------------------------------------------------
(* Packets.                                                                  *)

CircuitIdSizeMask == 15

\* Mutant: a payload one byte too large for its first packet is cut unannounced.
ExceedsByMore(room, buffer) == room + 1 < Len(buffer)

\* A payload that is too large for its first packet starts with its length.
Exceeds(room, buffer) == room < Len(buffer)

\* One turn of Write's loop. An error of the headers, or no room for the length,
\* which is a panic, ends it.
WriteChunk(w, mtu) ==
    LET rtt == IF w.seq % 5 = 0 THEN <<0, 0>> ELSE <<>>
        withHeaders == w.first /\ DOMAIN w.headers # {}
        before == rtt \o w.id \o PutUvarint(w.seq)
        map == writeU8ToBytesMap(w.headers, mtu - 2 - Len(before))
        head == before \o (IF withHeaders THEN map.bytes ELSE <<>>)
        room == mtu - 2 - Len(head)
        starts == w.first /\ Exceeds(room, w.buffer)
        length == IF starts THEN PutUvarint(Len(w.buffer)) ELSE <<>>
        data == length \o Take(room - Len(length), w.buffer)
        beat == 2 + Len(head) + Len(data) + 8 <= mtu
        flags == (IF w.terminator THEN {"terminator"} ELSE {})
                 \cup (IF rtt # <<>> THEN {"rtt"} ELSE {})
                 \cup (IF withHeaders THEN {"headers"} ELSE {})
                 \cup (IF w.chunked \/ starts THEN {"chunk"} ELSE {})
                 \cup (IF beat THEN {"heartbeat"} ELSE {})
    IN  IF withHeaders /\ ~map.ok THEN [w EXCEPT !.seq = @ + 1, !.result = "error"]
        ELSE IF room < Len(length) THEN [w EXCEPT !.seq = @ + 1, !.result = "panic"]
        ELSE [w EXCEPT !.seq = @ + 1, !.first = FALSE, !.chunked = @ \/ starts,
                       !.buffer = Drop(Len(data) - Len(length), @),
                       !.packets = Append(@, <<flags, Len(w.id) % (CircuitIdSizeMask + 1)>>
                                             \o head \o data
                                             \o (IF beat THEN Zeros(8) ELSE <<>>))]

\* Bound: the packets of one Write.
MaxPackets == 24

\* Xgress.Write with an MTU: the packets it sends, from sequence number seq on.
Write(buffer, headers, id, seq, terminator, mtu) ==
    FoldLeft(LAMBDA w, i :
                 IF w.result = "ok" /\ (w.buffer # <<>> \/ (w.first /\ DOMAIN headers # {}))
                 THEN WriteChunk(w, mtu) ELSE w,
             [buffer |-> buffer, headers |-> headers, id |-> id, seq |-> seq,
              terminator |-> terminator, first |-> TRUE, chunked |-> FALSE,
              packets |-> <<>>, result |-> "ok"],
             [i \in 1..MaxPackets |-> i])

\* UnmarshallPacketPayload, of version 1.
UnmarshallPacketPayload(p) ==
    LET afterRtt == Drop(IF "rtt" \in p[1] THEN 4 ELSE 2, p)
        body == IF "heartbeat" \in p[1] THEN Take(Len(afterRtt) - 8, afterRtt) ELSE afterRtt
        afterId == Drop(p[2], body)
        rest == Drop(UvarintSize(afterId), afterId)
        map == readU8ToBytesMap(rest)
    IN  [id |-> Take(p[2], body), seq |-> Uvarint(afterId),
         headers |-> IF "headers" \in p[1] THEN map.headers ELSE <<>>,
         data |-> IF "headers" \in p[1] THEN map.rest ELSE rest,
         flags |-> p[1] \cap {"chunk", "terminator"}]

\* One payload that tx takes from the receive buffer: whole, or a chunk, of which
\* the first gives the length. What is written to the client, and how much is
\* taken off the size of the buffer, are counted.
TxChunk(t, payload) ==
    LET size == IF t.started THEN t.size ELSE Uvarint(payload.data)
        skip == IF t.started THEN 0 ELSE UvarintSize(payload.data)
        whole == ~t.started /\ size + skip = Len(payload.data)
        data == (IF t.started THEN t.data ELSE <<>>) \o Drop(skip, payload.data)
        headers == IF t.started THEN t.headers ELSE payload.headers
        \* a chunk that is the whole payload is cut before it is counted
        cleared == t.cleared + Len(payload.data) - (IF whole THEN skip ELSE 0)
        written == Append(t.written, [data |-> data, headers |-> headers])
    IN  IF "chunk" \notin payload.flags
        THEN [t EXCEPT !.written = Append(@, [data |-> payload.data, headers |-> payload.headers]),
                       !.cleared = @ + Len(payload.data)]
        ELSE IF Len(data) = size
        THEN [t EXCEPT !.started = FALSE, !.written = written, !.cleared = cleared]
        ELSE [t EXCEPT !.started = TRUE, !.size = size, !.data = data, !.headers = headers,
                       !.cleared = cleared]

TxAll(payloads) ==
    FoldLeft(TxChunk, [started |-> FALSE, size |-> 0, data |-> <<>>, headers |-> <<>>,
                       written |-> <<>>, cleared |-> 0], payloads)

-----------------------------------------------------------------------------
(* Messages: a content type, headers by number, and a body.                  *)

\* Numbers of 32 bits are taken to have 16 here, big end first; conversions
\* between signed and unsigned ones wrap.
Unsigned(n) == n % 65536
Signed(n) == IF n % 65536 >= 32768 THEN (n % 65536) - 65536 ELSE n % 65536
BigEndian(n) == <<n \div 256, n % 256>>
FromBigEndian(b) == b[1] * 256 + b[2]

MinHeaderKey == 2000
MaxHeaderKey == MinHeaderKey + 255
HeaderKeyCircuitId == 2256
HeaderKeySequence == 2257
HeaderKeyFlags == 2258
HeaderKeyRecvBufferSize == 2259
MaxBufferSize == 65535

\* The flags are those of Payload.Flags; none are not put into a header.
WithFlags(headers, flags) ==
    IF flags = {} THEN headers ELSE headers @@ (HeaderKeyFlags :> flags)
FlagsOf(msg) == IF HeaderKeyFlags \in DOMAIN msg.headers THEN msg.headers[HeaderKeyFlags] ELSE {}
SetOriginatorFlag(flags, terminator) ==
    IF terminator THEN flags \cup {"terminator"} ELSE flags \ {"terminator"}

\* Payload.Marshall of a payload that is not a packet: sendUnchunkedBuffer's, and
\* those that only carry flags.
MarshallPayload(p) ==
    [body |-> p.data,
     headers |-> WithFlags([k \in {MinHeaderKey + h : h \in DOMAIN p.headers} |->
                                p.headers[k - MinHeaderKey]]
                           @@ (HeaderKeyCircuitId :> p.id)
                           @@ (HeaderKeySequence :> Unsigned(p.seq)), p.flags)]
UnmarshallPayload(msg) ==
    [data |-> msg.body, id |-> msg.headers[HeaderKeyCircuitId],
     seq |-> Signed(msg.headers[HeaderKeySequence]), flags |-> FlagsOf(msg),
     headers |-> [k \in {h - MinHeaderKey : h \in DOMAIN msg.headers \cap (MinHeaderKey..MaxHeaderKey)} |->
                      msg.headers[k + MinHeaderKey]]]

\* Acknowledgement.Marshall: the numbers one after the other.
marshallSequence(seqs) == FlattenSeq([i \in DOMAIN seqs |-> BigEndian(Unsigned(seqs[i]))])
unmarshallSequence(bytes) ==
    [i \in 1..(Len(bytes) \div 2) |-> Signed(FromBigEndian(SubSeq(bytes, 2 * i - 1, 2 * i)))]
MarshallAck(a) ==
    [body |-> marshallSequence(a.seqs),
     headers |-> WithFlags((HeaderKeyCircuitId :> a.id) @@ (HeaderKeyRecvBufferSize :> a.size),
                           a.flags)]
UnmarshallAcknowledgement(msg) ==
    [id |-> msg.headers[HeaderKeyCircuitId], flags |-> FlagsOf(msg),
     seqs |-> unmarshallSequence(msg.body),
     size |-> IF HeaderKeyRecvBufferSize \in DOMAIN msg.headers
              THEN msg.headers[HeaderKeyRecvBufferSize] ELSE MaxBufferSize]

-----------------------------------------------------------------------------
(* Properties.                                                               *)

\* Whatever the MTU leaves room for, what Write cuts into packets and
\* UnmarshallPacketPayload and tx put together is one payload, the one written,
\* with its headers; the packets are numbered one after the other and no longer
\* than the MTU; and tx takes off the receive buffer's size what was put on it. A
\* write that fails has sent nothing, but has used a number.
PacketsRoundTrip(c) ==
    LET w == Write(c.buffer, c.headers, c.id, c.seq, c.terminator, c.mtu)
        payloads == [i \in DOMAIN w.packets |-> UnmarshallPacketPayload(w.packets[i])]
        t == TxAll(payloads)
    IN  IF w.result # "ok" THEN w.packets = <<>> /\ w.seq = c.seq + 1
        ELSE /\ t.written = IF c.buffer = <<>> /\ DOMAIN c.headers = {} THEN <<>>
                            ELSE <<[data |-> c.buffer, headers |-> c.headers]>>
             /\ ~t.started /\ w.buffer = <<>>
             /\ t.cleared = FoldLeft(LAMBDA n, p : n + Len(p.data), 0, payloads)
             /\ \A i \in DOMAIN w.packets :
                  /\ Len(w.packets[i]) <= c.mtu
                  /\ payloads[i].seq = c.seq + i - 1 /\ payloads[i].id = c.id
                  /\ "terminator" \in payloads[i].flags <=> c.terminator

\* A payload and an acknowledgement come out of their messages as they were put
\* in, whatever their headers and flags, also when sequence numbers have passed
\* the largest signed number.
PayloadRoundTrip(p) == UnmarshallPayload(MarshallPayload(p)) = p
AcknowledgementRoundTrip(a) == UnmarshallAcknowledgement(MarshallAck(a)) = a
=============================================================================
