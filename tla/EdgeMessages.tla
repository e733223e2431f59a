---------------------------- MODULE EdgeMessages ----------------------------
(***************************************************************************)
(* The messages between the SDK and an edge router (zt/edge/messages.go):  *)
(* what their constructors put in them, what their readers make of them,   *)
(* and where the connection multiplexer sends them (zt/edge/msg_mux.go).   *)
(* A message has a type, a body and headers; integers that are encoded are *)
(* sequences of bytes, all other values stand for themselves.              *)
(***************************************************************************)
EXTENDS Integers, Sequences, TLC

CONSTANT Nil \* no value: a model value, equal to no other

NewMessage(type, body) == [type |-> type, body |-> body, headers |-> [k \in {} |-> Nil]]
Put(m, key, value) == [m EXCEPT !.headers = (key :> value) @@ @]
PutIf(m, present, key, value) == IF present THEN Put(m, key, value) ELSE m
Has(m, key) == key \in DOMAIN m.headers
Get(m, key, default) == IF Has(m, key) THEN m.headers[key] ELSE default

LittleEndian(n, width) == [i \in 1..width |-> (n \div 256^(i - 1)) % 256]
FromLittleEndian16(b) == b[1] + 256 * b[2]
FromLittleEndian32(b) == b[1] + 256 * b[2] + 65536 * b[3] + 16777216 * b[4]

newMsg(type, connId, body) == Put(NewMessage(type, body), "connId", connId)

-----------------------------------------------------------------------------
(* Dialling and hosting *)

PublicKey(m, pubKey) ==
    PutIf(PutIf(m, pubKey # Nil, "publicKey", pubKey), pubKey # Nil, "cryptoMethod", "libsodium")

(* Of the optional headers those are left out here and in NewBindMsg that  *)
(* are put in the same way and that nothing in the SDK reads back.         *)
NewConnectMsg(connId, token, pubKey, options) ==
    LET m == PublicKey(newMsg("connect", connId, token), pubKey)
        n == PutIf(m, options.identity # Nil, "terminatorIdentity", options.identity)
        o == PutIf(n, options.callerId # Nil, "callerId", options.callerId)
    IN  PutIf(o, options.appData # Nil, "appData", options.appData)

NewDialMsg(connId, token, callerId) == Put(newMsg("dial", connId, token), "callerId", callerId)

NewBindMsg(connId, token, pubKey, options) ==
    LET m == Put(Put(newMsg("bind", connId, token), "supportsBindSuccess", TRUE),
                 "useXgress", options.sdkFlowControl)
        n == PutIf(PublicKey(m, pubKey), options.cost > 0, "cost", LittleEndian(options.cost, 2))
        o == PutIf(n, options.precedence # "default", "precedence", options.precedence)
    IN  Put(PutIf(o, options.identity # Nil, "terminatorIdentity", options.identity),
            "routerProvidedConnId", TRUE)

NewUnbindMsg(connId, token) == newMsg("unbind", connId, token)

(* A cost is put here, zero included, whenever it is given. *)
NewUpdateBindMsg(connId, token, cost, precedence) ==
    PutIf(PutIf(newMsg("updateBind", connId, token), cost # Nil, "cost",
                IF cost = Nil THEN Nil ELSE LittleEndian(cost, 2)),
          precedence # Nil, "precedence", precedence)

NewHealthEventMsg(connId, token, pass) == Put(newMsg("health", connId, token), "healthStatus", pass)

NewStateConnectedMsg(connId) == newMsg("connected", connId, Nil)
NewStateClosedMsg(connId, message) == newMsg("closed", connId, message)

NewDialSuccessMsg(connId, newConnId) == newMsg("dialSuccess", connId, LittleEndian(newConnId, 4))
NewDialFailedMsg(connId, message) == newMsg("dialFailed", connId, message)

UnmarshalDialResult(m) ==
    IF ~Has(m, "connId") THEN Nil
    ELSE IF m.type = "dialSuccess"
    THEN IF Len(m.body) # 4 THEN Nil
         ELSE [connId |-> m.headers.connId, newConnId |-> FromLittleEndian32(m.body), success |-> TRUE,
               message |-> Nil]
    ELSE IF m.type = "dialFailed"
    THEN [connId |-> m.headers.connId, newConnId |-> 0, success |-> FALSE, message |-> m.body]
    ELSE Nil

-----------------------------------------------------------------------------
(* Errors, inspection, trace routes, tokens, posture *)

(* A structured error travels as JSON.  Its cause is an interface, which   *)
(* JSON can write but not read: an error with a cause is read as none.     *)
ApplyToMsg(e, m) == Put(Put(m, "structuredError", e), "errorCode", e.code)
ErrorFromMsg(m) ==
    IF Has(m, "structuredError") /\ m.headers.structuredError.cause = Nil
    THEN m.headers.structuredError ELSE Nil

NewConnInspectResponse(connId, connType, state) ==
    Put(newMsg("connInspectResponse", connId, state), "connType", connType)
UnmarshalInspectResult(m) ==
    IF m.type # "connInspectResponse" THEN Nil
    ELSE [connId |-> Get(m, "connId", 0), type |-> Get(m, "connType", "unknown"), detail |-> m.body]

NewInspectRequest(connId, values) ==
    PutIf(Put(NewMessage("inspectRequest", Nil), "values", values), connId # Nil, "connId", connId)
NewInspectResponse(connId, values) == newMsg("inspectResponse", connId, values)

NewTraceRouteMsg(connId, hops, timestamp) ==
    Put(Put(newMsg("traceRoute", connId, Nil), "hops", hops), "timestamp", timestamp)
NewTraceRouteResponseMsg(connId, hops, timestamp, hopType, hopId) ==
    LET m == NewTraceRouteMsg(connId, hops, timestamp)
    IN  Put(Put([m EXCEPT !.type = "traceRouteResponse"], "hopType", hopType), "hopId", hopId)

(* edgeConn.AcceptMessage's answer to a trace route: one hop less, never   *)
(* fewer than none.                                                        *)
AnswerTraceRoute(m) ==
    LET hops == Get(m, "hops", 0)
        left == IF hops > 0 THEN hops - 1 ELSE hops
        resp == NewTraceRouteResponseMsg(Get(m, "connId", 0), left, Get(m, "timestamp", 0), "sdk/golang", "")
    IN  PutIf(Put(resp, "sourceRequestId", Get(m, "sourceRequestId", 0)),
              Has(m, "uuid"), "uuid", Get(m, "uuid", Nil))

(* TraceRoute's result, from the answer that arrives at `now'. *)
TraceRouteResult(m, now) ==
    IF m.type # "traceRouteResponse" THEN Nil
    ELSE [hops |-> Get(m, "hops", 0), hopType |-> Get(m, "hopType", ""), hopId |-> Get(m, "hopId", ""),
          time |-> LET ts == Get(m, "timestamp", 0) IN IF ts > 0 THEN now - ts ELSE 0]

NewUpdateTokenMsg(token) == NewMessage("updateToken", token)
NewUpdateTokenSuccessMsg == NewMessage("updateTokenSuccess", Nil)
NewUpdateTokenFailedMsg(err) == NewMessage("updateTokenFailure", err)
UpdateToken(resp) ==
    IF resp.type = "updateTokenSuccess" THEN Nil
    ELSE IF resp.type = "updateTokenFailure" THEN resp.body ELSE "invalid content type"

(* A posture response becomes one protobuf response, an endpoint state one *)
(* for each event it reports, an unknown one none.                         *)
postureResponseRestModelToProtos(r) ==
    IF r.type = "endpoint"
    THEN (IF r.woken THEN <<"woken">> ELSE <<>>) \o (IF r.unlocked THEN <<"unlocked">> ELSE <<>>)
    ELSE IF r.type \in {"domain", "macs", "process", "os", "totp"} THEN <<r.type>>
    ELSE <<>>
NewPostureResponsesMsg(rs) ==
    LET upTo[i \in 0..Len(rs)] ==
          IF i = 0 THEN <<>> ELSE upTo[i - 1] \o postureResponseRestModelToProtos(rs[i])
    IN  NewMessage("postureResponse", upTo[Len(rs)])

-----------------------------------------------------------------------------
(* Dispatch *)

(* An EOF or end of circuit for a connection that is gone: an acknowledge- *)
(* ment is made, but it is the payload that is sent back.                  *)
handlePayloadWithNoSink(m) ==
    IF m.body.data = <<>> /\ m.body.ends THEN <<m>> ELSE <<>>

HandleInspect(sinks, m) ==
    <<NewInspectResponse(0, IF "circuits" \in m.headers.values
                            THEN {id \in DOMAIN sinks : sinks[id].kind = "dial"} ELSE {})>>

(* The sink that takes a message, or the messages that are sent back. *)
HandleReceive(sinks, m) ==
    IF ~Has(m, "connId")
    THEN [sink |-> Nil, replies |-> IF m.type = "inspectRequest" THEN HandleInspect(sinks, m) ELSE <<>>]
    ELSE IF m.headers.connId \in DOMAIN sinks THEN [sink |-> m.headers.connId, replies |-> <<>>]
    ELSE [sink |-> Nil, replies |->
            IF m.type = "connInspectRequest"
            THEN <<NewConnInspectResponse(m.headers.connId, "invalid", "invalid conn id")>>
            ELSE IF m.type = "xgPayload" THEN handlePayloadWithNoSink(m) ELSE <<>>]

-----------------------------------------------------------------------------
(* Properties *)

(* Who reads a message finds what its constructor was given: a dial result *)
(* its connection ids at every byte boundary, an error that has no cause   *)
(* its code and retry hint, an inspection its connection, a trace route    *)
(* its hops less one and the time since its own clock's timestamp          *)
(* (messages.go, TraceRoute, UpdateToken); a message for a connection that *)
(* is not there is never given to another one, and an inspect request is   *)
(* always answered (HandleReceive).                                        *)
EdgeMessagesRoundTrip(c) ==
    /\ UnmarshalDialResult(NewDialSuccessMsg(c.id, c.newId)) =
         [connId |-> c.id, newConnId |-> c.newId, success |-> TRUE, message |-> Nil]
    /\ ~UnmarshalDialResult(NewDialFailedMsg(c.id, "failed")).success
    /\ c.error.cause = Nil =>
         ErrorFromMsg(ApplyToMsg(c.error, NewStateClosedMsg(c.id, "closed"))) = c.error
    /\ UnmarshalInspectResult(NewConnInspectResponse(c.id, "bind", "state")).type = "bind"
    /\ LET r == TraceRouteResult(AnswerTraceRoute(NewTraceRouteMsg(c.id, c.hops, 1)), 3)
       IN  r.hops = (IF c.hops = 0 THEN 0 ELSE c.hops - 1) /\ r.time = 2
    /\ UpdateToken(NewUpdateTokenFailedMsg("err")) = "err" /\ UpdateToken(NewUpdateTokenSuccessMsg) = Nil
    /\ \A k \in {"connInspectRequest", "xgPayload", "data", "closed"} :
         LET d == HandleReceive(c.sinks, newMsg(k, c.id, [data |-> <<>>, ends |-> TRUE]))
         IN  /\ d.sink = (IF c.id \in DOMAIN c.sinks THEN c.id ELSE Nil)
             /\ k = "connInspectRequest" => d.sink # Nil \/ Len(d.replies) = 1
    /\ Len(HandleReceive(c.sinks, NewInspectRequest(Nil, {"circuits"})).replies) = 1
    /\ Len(NewPostureResponsesMsg(c.responses).body) =
         Len(c.responses) + (IF \E i \in DOMAIN c.responses : c.responses[i].type = "endpoint" THEN 1 ELSE 0)
=============================================================================
