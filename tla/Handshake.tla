----------------------------- MODULE Handshake -----------------------------
(***************************************************************************)
(* The set-up of a circuit between two SDK applications: the hosting side  *)
(* binds a terminator at its router (edgeHostConn.listen), the dialling    *)
(* side connects (edgeConn.Connect), the router turns that into a dial     *)
(* request, and a child connection answers it (newChildConnection) at once *)
(* or, with manual start, when the application completes the accept.  Both *)
(* routers and the fabric between them are one external router.            *)
(***************************************************************************)
EXTENDS EdgeMessages, FiniteSets

CONSTANT MaxUpdates \* bound: cost updates and router closes

VARIABLES
    setup,      \* options of both sides, fixed at the start
    hostConn,   \* the edgeHostConn
    child,      \* the child connection and the goroutine that makes it
    dialConn,   \* the edgeConn that dials
    terminator, \* what the router knows of the host
    circuit,    \* what the router knows of the dial
    toRouter,   \* messages of the host's channel, in order
    toHost,     \* messages of the router to the host, in order
    toDialer,   \* messages of the router to the dialler
    updates     \* updates made so far

handshakeVars == <<setup, hostConn, child, dialConn, terminator, circuit, toRouter, toHost,
                   toDialer, updates>>

Setups ==
    [encrypts : BOOLEAN,     \* the service's EncryptionRequired
     dialKey : BOOLEAN,      \* the dialler could make a key pair
     hostFlow : BOOLEAN,     \* SdkFlowControl of the ListenOptions
     dialFlow : BOOLEAN,     \* SdkFlowControl of the DialOptions
     routerFlow : BOOLEAN,   \* the routers have it
     grouped : BOOLEAN,      \* several default connections, on both sides
     manual : BOOLEAN,       \* ManualStart
     provides : BOOLEAN,     \* the router provides connection ids
     bindSuccess : BOOLEAN]  \* the router sends BindSuccess

HostId == 1
ChildId == 513
Token == "token"
AppData == "appData"
Caller == "caller"
None == [pc |-> "none"]

(* DialWithOptions and listenSession ask for flow control when there may   *)
(* be several default connections.                                         *)
HandshakeInit ==
    /\ setup \in Setups
    /\ setup.grouped => setup.hostFlow /\ setup.dialFlow
    /\ hostConn = [pc |-> "new", reply |-> Nil, closed |-> FALSE, established |-> FALSE]
    /\ child = None
    /\ dialConn = [pc |-> "new", circuit |-> Nil, keys |-> Nil]
    /\ terminator = None
    /\ circuit = None
    /\ toRouter = <<>> /\ toHost = <<>> /\ toDialer = <<>>
    /\ updates = 0

(* The key exchange: both ends derive the same pair of keys. *)
ClientSessionKeys(own, peer) == [rx |-> <<own, peer, "to client">>, tx |-> <<own, peer, "to server">>]
ServerSessionKeys(own, peer) == [rx |-> <<peer, own, "to server">>, tx |-> <<peer, own, "to client">>]

HostKey == IF setup.encrypts THEN "host key" ELSE Nil
DialKey == IF setup.encrypts /\ setup.dialKey THEN "dial key" ELSE Nil

(* An xgress needs its headers; without one the channel must be single. *)
setupFlowControlWorks(m) ==
    IF Get(m, "useXgress", FALSE) THEN Has(m, "xgressCtrlId") /\ Has(m, "xgressAddress")
    ELSE ~setup.grouped

-----------------------------------------------------------------------------
(* The hosting side *)

(* The connection is in the mux from before the bind request on, and stays *)
(* there when it is closed.                                                *)
listen ==
    /\ hostConn.pc = "new"
    /\ hostConn' = [hostConn EXCEPT !.pc = "binding"]
    /\ toRouter' = Append(toRouter, NewBindMsg(HostId, Token, HostKey,
                     [sdkFlowControl |-> setup.hostFlow, cost |-> 300, precedence |-> "default",
                      identity |-> Nil]))
    /\ UNCHANGED <<setup, child, dialConn, terminator, circuit, toHost, toDialer, updates>>

(* close: nothing is said to a router that closed the connection itself. *)
CloseMessages(closedByRemote) ==
    IF hostConn.closed \/ closedByRemote THEN <<>>
    ELSE <<NewUnbindMsg(HostId, Token), NewStateClosedMsg(HostId, "")>>

(* listen sends an unbind when it fails, and routerConn.Listen closes the  *)
(* connection, which may send another.                                     *)
ListenFails ==
    /\ hostConn' = [hostConn EXCEPT !.pc = "failed", !.closed = TRUE]
    /\ toRouter' = toRouter \o <<NewUnbindMsg(HostId, Token)>> \o CloseMessages(FALSE)

(* The reply to the bind request, or none in five seconds. *)
ListenReturns ==
    /\ hostConn.pc = "binding"
    /\ \/ /\ hostConn.reply = "connected"
          /\ hostConn' = [hostConn EXCEPT !.pc = "bound", !.established = @ \/ ~setup.bindSuccess]
          /\ UNCHANGED toRouter
       \/ hostConn.reply # "connected" /\ ListenFails
    /\ UNCHANGED <<setup, child, dialConn, terminator, circuit, toHost, toDialer, updates>>

(* Close, of the application or of a multi-listener. *)
Close ==
    /\ hostConn.pc = "bound" /\ ~hostConn.closed
    /\ hostConn' = [hostConn EXCEPT !.closed = TRUE]
    /\ toRouter' = toRouter \o CloseMessages(FALSE)
    /\ UNCHANGED <<setup, child, dialConn, terminator, circuit, toHost, toDialer, updates>>

updateCostAndPrecedence ==
    /\ hostConn.pc = "bound" /\ updates < MaxUpdates
    /\ updates' = updates + 1
    /\ toRouter' = Append(toRouter, NewUpdateBindMsg(HostId, Token, 0, Nil))
    /\ UNCHANGED <<setup, hostConn, child, dialConn, terminator, circuit, toHost, toDialer>>

SendHealthEvent ==
    /\ hostConn.pc = "bound" /\ updates < MaxUpdates
    /\ updates' = updates + 1
    /\ toRouter' = Append(toRouter, NewHealthEventMsg(HostId, Token, TRUE))
    /\ UNCHANGED <<setup, hostConn, child, dialConn, terminator, circuit, toHost, toDialer>>

(* A reply goes to the call that waits for it, if it still does. *)
Replies(m) ==
    CASE Get(m, "replyTo", Nil) = "bind" -> hostConn.pc = "binding" /\ hostConn.reply = Nil
      [] Get(m, "replyTo", Nil) = "dial" -> child.pc = "starting"
      [] OTHER -> FALSE

TakeReply ==
    /\ toHost # <<>> /\ Replies(Head(toHost))
    /\ toHost' = Tail(toHost)
    /\ IF Head(toHost).headers.replyTo = "bind"
       THEN hostConn' = [hostConn EXCEPT !.reply = Head(toHost).type] /\ UNCHANGED child
       ELSE child' = [child EXCEPT !.pc = IF Head(toHost).type = "connected" THEN "started" ELSE "failed"]
            /\ UNCHANGED hostConn
    /\ UNCHANGED <<setup, dialConn, terminator, circuit, toRouter, toDialer, updates>>

(* Every other message goes through the mux: to the hosting connection, to *)
(* the child, or to nobody.  A dial request is served by a goroutine.      *)
AcceptMessage ==
    /\ toHost # <<>> /\ ~Replies(Head(toHost))
    /\ toHost' = Tail(toHost)
    /\ LET m == Head(toHost) IN
       /\ hostConn' = IF m.headers.connId # HostId THEN hostConn
                      ELSE [hostConn EXCEPT !.closed = @ \/ m.type = "closed",
                                            !.established = @ \/ m.type = "bindSuccess"]
       /\ child' = IF m.type = "dial" THEN [pc |-> "requested", message |-> m]
                   ELSE IF m.type = "closed" /\ m.headers.connId = ChildId /\ child # None
                   THEN [child EXCEPT !.pc = "failed"] ELSE child
    /\ UNCHANGED <<setup, dialConn, terminator, circuit, toRouter, toDialer, updates>>

-----------------------------------------------------------------------------
(* The child connection *)

FailDial(reason) == toRouter' = Append(toRouter, NewDialFailedMsg(HostId, reason))

(* newChildConnection up to its answer: the token, the id, which must not  *)
(* be in the mux, flow control and keys.                                   *)
newChildConnection ==
    /\ child.pc = "requested"
    /\ \E taken \in BOOLEAN :
       LET m == child.message
           key == IF setup.encrypts THEN Get(m, "publicKey", Nil) ELSE Nil
           refused == \/ m.body # Token \/ taken \/ ~setupFlowControlWorks(m)
                      \/ key # Nil /\ Get(m, "cryptoMethod", Nil) # "libsodium"
       IN  IF refused
           THEN child' = [child EXCEPT !.pc = "failed"] /\ FailDial("failed")
           ELSE /\ child' = [pc |-> IF setup.manual THEN "offered" ELSE "made", completed |-> ~setup.manual,
                             circuit |-> Get(m, "circuitId", Nil), header |-> FALSE,
                             keys |-> IF key # Nil THEN ServerSessionKeys(HostKey, key) ELSE Nil,
                             sourceIdentity |-> Get(m, "callerId", Nil), appData |-> Get(m, "appData", Nil),
                             provided |-> Has(m, "routerProvidedConnId")]
                /\ UNCHANGED toRouter
    /\ UNCHANGED <<setup, hostConn, dialConn, terminator, circuit, toHost, toDialer, updates>>

(* With manual start the application has the connection first. *)
CompleteAcceptSuccess ==
    /\ child.pc = "offered"
    /\ child' = [child EXCEPT !.pc = "made", !.completed = TRUE]
    /\ UNCHANGED <<setup, hostConn, dialConn, terminator, circuit, toRouter, toHost, toDialer, updates>>

CompleteAcceptFailed ==
    /\ child.pc = "offered"
    /\ child' = [child EXCEPT !.pc = "failed"]
    /\ FailDial("failed")
    /\ UNCHANGED <<setup, hostConn, dialConn, terminator, circuit, toHost, toDialer, updates>>

(* dialSucceeded answers, and waits for the router's start if the router   *)
(* did not give the connection its id.                                     *)
dialSucceeded ==
    /\ child.pc = "made"
    /\ toRouter' = Append(toRouter, NewDialSuccessMsg(HostId, ChildId))
    /\ child' = [child EXCEPT !.pc = IF child.provided THEN "started" ELSE "starting"]
    /\ UNCHANGED <<setup, hostConn, dialConn, terminator, circuit, toHost, toDialer, updates>>

StartTimesOut ==
    /\ child.pc = "starting"
    /\ child' = [child EXCEPT !.pc = "failed"]
    /\ FailDial("failed")
    /\ UNCHANGED <<setup, hostConn, dialConn, terminator, circuit, toHost, toDialer, updates>>

(* The rest of dialSucceeded: the crypto header is written to the data     *)
(* sink; if that fails the connection is closed.                           *)
WriteCryptoHeader ==
    /\ child.pc = "started"
    /\ \E works \in BOOLEAN :
          child' = [child EXCEPT !.pc = IF works \/ child.keys = Nil THEN "open" ELSE "failed",
                                 !.header = works /\ child.keys # Nil]
    /\ UNCHANGED <<setup, hostConn, dialConn, terminator, circuit, toRouter, toHost, toDialer, updates>>

-----------------------------------------------------------------------------
(* The dialling side *)

Connect ==
    /\ dialConn.pc = "new"
    /\ dialConn' = [dialConn EXCEPT !.pc = "dialing"]
    /\ circuit' = [pc |-> "requested", key |-> Nil,
                   request |-> Put(NewConnectMsg(1, Token, DialKey,
                                     [identity |-> Nil, callerId |-> Caller, appData |-> AppData]),
                                   "useXgress", setup.dialFlow)]
    /\ UNCHANGED <<setup, hostConn, child, terminator, toRouter, toHost, toDialer, updates>>

(* A failed Connect is closed, which the router is told. *)
ConnectFails ==
    /\ dialConn' = [dialConn EXCEPT !.pc = "failed"]
    /\ circuit' = [circuit EXCEPT !.pc = "closing"]

(* Mutant: a dialler that connects in the clear whatever its service says. *)
ConnectedInTheClear(m) ==
    [dialConn EXCEPT !.pc = "open", !.circuit = Get(m, "circuitId", Nil)]

(* A dialler that is connected: its circuit and keys. *)
Connected(m) ==
    [dialConn EXCEPT !.pc = "open", !.circuit = Get(m, "circuitId", Nil),
       !.keys = IF DialKey # Nil /\ Has(m, "publicKey")
                THEN ClientSessionKeys(DialKey, m.headers.publicKey) ELSE Nil]

(* The reply to the connect request or its timeout; the crypto header may  *)
(* fail to be written.                                                     *)
ConnectReturns ==
    /\ dialConn.pc = "dialing"
    /\ \/ /\ toDialer # <<>>
          /\ toDialer' = Tail(toDialer)
          /\ LET m == Head(toDialer)
                 methodKnown == DialKey # Nil /\ Has(m, "publicKey")
                                  => Get(m, "cryptoMethod", Nil) = "libsodium"
             IN  IF m.type = "connected" /\ setupFlowControlWorks(m) /\ methodKnown
                 THEN dialConn' = Connected(m) /\ UNCHANGED circuit
                 ELSE ConnectFails
       \/ ConnectFails /\ UNCHANGED toDialer
    /\ UNCHANGED <<setup, hostConn, child, terminator, toRouter, toHost, updates>>

-----------------------------------------------------------------------------
(* The router, external *)

Tell(m) == toHost' = Append(toHost, m)

(* An xgress is used where the side asked for one and the router has it. *)
WithFlow(m, asked) ==
    IF asked /\ setup.routerFlow
    THEN Put(Put(Put(m, "useXgress", TRUE), "xgressCtrlId", "ctrl"), "xgressAddress", "address") ELSE m

(* A dial request carries what the connect request did; its token is that  *)
(* of the terminator, or of one before it.                                 *)
RouterHandlesConnect ==
    /\ circuit.pc = "requested"
    /\ IF terminator = None
       THEN /\ toDialer' = Append(toDialer, NewStateClosedMsg(1, "no terminators"))
            /\ circuit' = [circuit EXCEPT !.pc = "closed"]
            /\ UNCHANGED toHost
       ELSE /\ \E token \in {terminator.token, "stale"} :
                 LET r == circuit.request
                     d == Put(NewDialMsg(HostId, token, r.headers.callerId), "circuitId", "circuit")
                     e == PutIf(d, setup.provides, "routerProvidedConnId", ChildId)
                     f == Put(PublicKey(e, Get(r, "publicKey", Nil)), "appData", r.headers.appData)
                 IN  Tell(WithFlow(f, terminator.flow))
            /\ circuit' = [circuit EXCEPT !.pc = "dialing", !.key = terminator.key]
            /\ UNCHANGED toDialer
    /\ UNCHANGED <<setup, hostConn, child, dialConn, terminator, toRouter, updates>>

RouterHandlesBind(m) ==
    /\ \/ /\ terminator' = [pc |-> "bound", token |-> m.body, key |-> Get(m, "publicKey", Nil),
                            flow |-> m.headers.useXgress]
          /\ toHost' = toHost \o <<Put(NewStateConnectedMsg(HostId), "replyTo", "bind")>> \o
                       (IF setup.bindSuccess THEN <<newMsg("bindSuccess", HostId, Nil)>> ELSE <<>>)
       \/ /\ Tell(Put(NewStateClosedMsg(HostId, "invalid session"), "replyTo", "bind"))
          /\ UNCHANGED terminator
    /\ UNCHANGED <<circuit, toDialer>>

(* A late answer to a dial: the connection it made is told to close. *)
RouterHandlesDialResult(r) ==
    /\ IF circuit.pc # "dialing"
       THEN /\ IF r.success THEN Tell(Put(NewStateClosedMsg(r.newConnId, "closed"), "replyTo", "dial"))
               ELSE UNCHANGED toHost
            /\ UNCHANGED <<circuit, toDialer>>
       ELSE IF r.success
       THEN /\ circuit' = [circuit EXCEPT !.pc = "open"]
            /\ toDialer' = Append(toDialer,
                 LET m == Put(NewStateConnectedMsg(1), "circuitId", "circuit")
                 IN  WithFlow(PublicKey(m, circuit.key), circuit.request.headers.useXgress))
            /\ IF setup.provides THEN UNCHANGED toHost
               ELSE Tell(Put(NewStateConnectedMsg(r.newConnId), "replyTo", "dial"))
       ELSE /\ circuit' = [circuit EXCEPT !.pc = "closed"]
            /\ toDialer' = Append(toDialer, NewStateClosedMsg(1, r.message))
            /\ UNCHANGED toHost
    /\ UNCHANGED terminator

RouterHandlesHost ==
    /\ toRouter # <<>>
    /\ toRouter' = Tail(toRouter)
    /\ LET m == Head(toRouter) IN
       CASE m.type = "bind" -> RouterHandlesBind(m)
         [] m.type \in {"unbind", "closed"} ->
              terminator' = None /\ UNCHANGED <<circuit, toHost, toDialer>>
         [] m.type \in {"dialSuccess", "dialFailed"} -> RouterHandlesDialResult(UnmarshalDialResult(m))
         [] OTHER -> UNCHANGED <<terminator, circuit, toHost, toDialer>>
    /\ UNCHANGED <<setup, hostConn, child, dialConn, updates>>

(* The dialler closed: so is the child, if there is one. *)
RouterClosesCircuit ==
    /\ circuit.pc = "closing"
    /\ circuit' = [circuit EXCEPT !.pc = "closed"]
    /\ Tell(NewStateClosedMsg(ChildId, "closed"))
    /\ UNCHANGED <<setup, hostConn, child, dialConn, terminator, toRouter, toDialer, updates>>

(* The terminator is removed, by the controller for instance. *)
RouterUnbinds ==
    /\ terminator # None /\ updates < MaxUpdates
    /\ updates' = updates + 1
    /\ terminator' = None
    /\ Tell(NewStateClosedMsg(HostId, "terminator removed"))
    /\ UNCHANGED <<setup, hostConn, child, dialConn, circuit, toRouter, toDialer>>

HandshakeNext ==
    \/ listen \/ ListenReturns \/ Close \/ updateCostAndPrecedence \/ SendHealthEvent
    \/ TakeReply \/ AcceptMessage \/ newChildConnection
    \/ CompleteAcceptSuccess \/ CompleteAcceptFailed \/ dialSucceeded \/ StartTimesOut
    \/ WriteCryptoHeader \/ Connect \/ ConnectReturns
    \/ RouterHandlesConnect \/ RouterHandlesHost \/ RouterClosesCircuit \/ RouterUnbinds

HandshakeSpec == HandshakeInit /\ [][HandshakeNext]_handshakeVars

-----------------------------------------------------------------------------
(* Properties *)

(* When Connect returns a connection, newChildConnection has made one for  *)
(* the same circuit, which the application has accepted if it starts       *)
(* connections itself; both are encrypted or neither is, with keys that    *)
(* fit, and they are whenever the service requires it and the dialler      *)
(* could make keys.  The child knows the dialler and its application data, *)
(* and writes no crypto header before the dial is answered.  A hosting     *)
(* connection that was closed on either side, or whose bind failed or was  *)
(* not answered in time, leaves no terminator behind once the router has   *)
(* read what it sent (listen, unbind, edgeHostConn.close).                 *)
HandshakeAgrees ==
    /\ dialConn.pc = "open" =>
        /\ child.pc \in {"starting", "started", "open", "failed"}
        /\ child.completed /\ child.circuit = dialConn.circuit
        /\ (child.keys = Nil) = (DialKey = Nil) /\ (dialConn.keys = Nil) = (DialKey = Nil)
        /\ DialKey # Nil => dialConn.keys = [rx |-> child.keys.tx, tx |-> child.keys.rx]
        /\ child.pc = "open" => child.header = (DialKey # Nil)
        /\ child.sourceIdentity = Caller /\ child.appData = AppData
    /\ hostConn.closed /\ hostConn.pc # "binding" /\ toRouter = <<>> => terminator = None
=============================================================================
