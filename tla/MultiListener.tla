--------------------------- MODULE MultiListener ---------------------------
(***************************************************************************)
(* Hosting a service (zt/edge/network/listener.go, hosting_conn.go).  A    *)
(* multiListener fans the hosting connections (edgeHostConn) it has, one   *)
(* per router channel here, in to the application's Accept: a goroutine    *)
(* per hosting connection (forward) moves the children that dial requests  *)
(* make from the connection's accept queue to the listener's unbuffered    *)
(* acceptC.                                                                *)
(*                                                                         *)
(* A hosting connection can be closed by five goroutines: the listener's   *)
(* Close, which holds listenerLock; forward, when it ends; the mux of its  *)
(* channel, when the channel closes; the channel's receiver, on a state    *)
(* closed message; and Listen, when it cannot bind.  The one that wins the *)
(* closed flag then sends nil to the accept queue, and waits there while   *)
(* the queue is full.                                                      *)
(***************************************************************************)
EXTENDS Naturals, Sequences, FiniteSets

CONSTANTS
    Hosts,          \* hosting connections, each on a channel of its own
    Clients,        \* the dial requests routers may send
    QueueSize       \* capacity of edgeHostConn.acceptC (10)

ASSUME ListenerAssumption ==
    /\ QueueSize \in Nat \ {0}
    /\ Hosts \intersect Clients = {}

CONSTANTS Nil, NoOne

ASSUME NilAssumption == Nil \notin Clients /\ Nil \notin Hosts /\ NoOne \notin Hosts

VARIABLES
    ml,         \* multiListener: [closed, listeners, gone (the map is nil), lock]
    closing,    \* multiListener.Close: [pc, todo]
    adding,     \* createListener: how far AddListener is, per hosting connection
    host,       \* edgeHostConn: [closed, acceptC, sender]
    fwd,        \* forward: [pc, child]
    chan,       \* the channel: [receiver, mux, todo]
    client,     \* where each child is
    app,        \* the goroutine in AcceptEdge: "busy", "waiting" or "ended"
    panicked    \* an assignment to the nil listeners map

vars == <<ml, closing, adding, host, fwd, chan, client, app, panicked>>

\* The sinks of a channel's mux: the hosting connection and one edgeConn.
Sinks == {"host", "conn"}

Init ==
    /\ ml = [closed |-> FALSE, listeners |-> {}, gone |-> FALSE, lock |-> NoOne]
    /\ closing = [pc |-> "idle", todo |-> {}]
    /\ adding = [h \in Hosts |-> "none"]
    /\ host = [h \in Hosts |-> [closed |-> FALSE, acceptC |-> <<>>, sender |-> NoOne]]
    /\ fwd = [h \in Hosts |-> [pc |-> "none", child |-> Nil]]
    /\ chan = [h \in Hosts |-> [receiver |-> "ready", mux |-> "open", todo |-> Sinks]]
    /\ client = [k \in Clients |-> [pc |-> "none", host |-> NoOne]]
    /\ app = "busy"
    /\ panicked = FALSE

-----------------------------------------------------------------------------
(***************************************************************************)
(* edgeHostConn: dial requests, and close with its deferred send.          *)
(***************************************************************************)

\* The channel's receiver takes the next message for the hosting connection.
Receives(h) == adding[h] # "none" /\ chan[h].receiver = "ready" /\ chan[h].mux = "open"

\* AcceptMessage of a dial request starts newChildConnection, which makes and
\* registers the child and then sends it to acceptC, or refuses the dial (wrong
\* token, id in use, no flow control, no crypto, no reply).  It does not look
\* at the closed flag.
Dial(k, h) ==
    /\ client[k].pc = "none"
    /\ Receives(h)
    /\ \E pc \in {"sending", "refused"} :
         client' = [client EXCEPT ![k] = [pc |-> pc, host |-> h]]
    /\ UNCHANGED <<ml, closing, adding, host, fwd, chan, app, panicked>>

Room(h) == Len(host[h].acceptC) < QueueSize

\* newChildConnection: conn.acceptC <- edgeCh.
newChildConnection(k) ==
    LET h == client[k].host
    IN  /\ client[k].pc = "sending"
        /\ Room(h)
        /\ host' = [host EXCEPT ![h].acceptC = Append(@, k)]
        /\ client' = [client EXCEPT ![k].pc = "queued"]
        /\ UNCHANGED <<ml, closing, adding, fwd, chan, app, panicked>>

\* close: the caller `who` wins the flag and goes on to the deferred send; one
\* that does not returns at once.  The unbind and state closed messages sent
\* in between have timeouts of their own and change nothing here.
Wins(h, who) ==
    /\ ~host[h].closed
    /\ host' = [host EXCEPT ![h].closed = TRUE, ![h].sender = who]

Loses(h) == host[h].closed /\ UNCHANGED host

\* close: conn.acceptC <- nil, and the caller continues.
SendNil(h) ==
    /\ host[h].sender # NoOne
    /\ Room(h)
    /\ host' = [host EXCEPT ![h].acceptC = Append(@, Nil), ![h].sender = NoOne]
    /\ LET who == host[h].sender
       IN  /\ closing' = IF who = "Close" THEN [pc |-> "walk", todo |-> closing.todo \ {h}]
                         ELSE closing
           /\ fwd' = IF who = "forward" THEN [fwd EXCEPT ![h].pc = "closer"] ELSE fwd
           /\ chan' = CASE who = "mux" -> [chan EXCEPT ![h].mux = "closing",
                                                       ![h].todo = @ \ {"host"}]
                        [] who = "receiver" -> [chan EXCEPT ![h].receiver = "ready"]
                        [] OTHER -> chan
    /\ UNCHANGED <<ml, adding, client, app, panicked>>

\* AcceptMessage of a state closed message, on the channel's receiver.
StateClosed(h) ==
    /\ Receives(h)
    /\ Wins(h, "receiver")
    /\ chan' = [chan EXCEPT ![h].receiver = "sending"]
    /\ UNCHANGED <<ml, closing, adding, fwd, client, app, panicked>>

\* The channel closes: the mux starts to notify its sinks.
ChannelClosed(h) ==
    /\ adding[h] # "none" /\ chan[h].mux = "open"
    /\ chan' = [chan EXCEPT ![h].mux = "closing"]
    /\ UNCHANGED <<ml, closing, adding, host, fwd, client, app, panicked>>

\* ConnMuxImpl.Close: HandleMuxClose of the next sink, in any order.
MuxNotifies(h) ==
    /\ chan[h].mux = "closing"
    /\ \/ /\ "conn" \in chan[h].todo
          /\ chan' = [chan EXCEPT ![h].todo = @ \ {"conn"}]
          /\ UNCHANGED host
       \/ /\ "host" \in chan[h].todo
          /\ Wins(h, "mux")
          /\ chan' = [chan EXCEPT ![h].mux = "sending"]
       \/ /\ "host" \in chan[h].todo
          /\ Loses(h)
          /\ chan' = [chan EXCEPT ![h].todo = @ \ {"host"}]
    /\ UNCHANGED <<ml, closing, adding, fwd, client, app, panicked>>

-----------------------------------------------------------------------------
(***************************************************************************)
(* multiListener.                                                          *)
(***************************************************************************)

\* createListener: Listen registers a hosting connection and binds it, or
\* fails to and closes it.
Listen(h) ==
    /\ adding[h] = "none"
    /\ \/ adding' = [adding EXCEPT ![h] = "listen"] /\ UNCHANGED host
       \/ adding' = [adding EXCEPT ![h] = "failed"] /\ Wins(h, "listen")
    /\ UNCHANGED <<ml, closing, fwd, chan, client, app, panicked>>

\* createListener calls AddListener with the hosting connection that Listen
\* returned.  It returns at once when the listener is closed.
AddListener(h) ==
    /\ adding[h] = "listen"
    /\ adding' = [adding EXCEPT ![h] = IF ml.closed THEN "ignored" ELSE "lock"]
    /\ UNCHANGED <<ml, closing, host, fwd, chan, client, app, panicked>>

\* Mutant: AddListener without the lock: Close may be walking the map.
AddUnlocked(h) ==
    /\ adding[h] = "lock"
    /\ ~ml.gone
    /\ ml' = [ml EXCEPT !.listeners = @ \union {h}]
    /\ fwd' = [fwd EXCEPT ![h].pc = "check"]
    /\ adding' = [adding EXCEPT ![h] = "added"]
    /\ UNCHANGED <<closing, host, chan, client, app, panicked>>

\* AddListener under listenerLock: the map entry and the forward goroutine.
\* Close leaves the map nil, and writing to it panics.
AddLocked(h) ==
    /\ adding[h] = "lock"
    /\ ml.lock = NoOne
    /\ IF ml.gone
       THEN /\ panicked' = TRUE
            /\ UNCHANGED <<ml, fwd>>
       ELSE /\ ml' = [ml EXCEPT !.listeners = @ \union {h}]
            /\ fwd' = [fwd EXCEPT ![h].pc = "check"]
            /\ UNCHANGED panicked
    /\ adding' = [adding EXCEPT ![h] = "added"]
    /\ UNCHANGED <<closing, host, chan, client, app>>

\* forward: the loop's condition.
ForwardChecks(h) ==
    /\ fwd[h].pc = "check"
    /\ fwd' = [fwd EXCEPT ![h].pc = IF ml.closed \/ host[h].closed THEN "close" ELSE "select"]
    /\ UNCHANGED <<ml, closing, adding, host, chan, client, app, panicked>>

\* forward: the select takes from the accept queue.
ForwardTakes(h) ==
    /\ fwd[h].pc = "select"
    /\ host[h].acceptC # <<>>
    /\ LET k == Head(host[h].acceptC)
       IN  /\ fwd' = [fwd EXCEPT ![h] = [pc |-> IF k = Nil THEN "close" ELSE "hand", child |-> k]]
           /\ client' = IF k = Nil THEN client ELSE [client EXCEPT ![k].pc = "forwarded"]
    /\ host' = [host EXCEPT ![h].acceptC = Tail(@)]
    /\ UNCHANGED <<ml, closing, adding, chan, app, panicked>>

\* forward: the ticker sends it back to the condition.
ForwardTicks(h) ==
    /\ fwd[h].pc = "select"
    /\ ml.closed \/ host[h].closed
    /\ fwd' = [fwd EXCEPT ![h].pc = "check"]
    /\ UNCHANGED <<ml, closing, adding, host, chan, client, app, panicked>>

\* accept: the child goes to a goroutine waiting in AcceptEdge.
HandOver(h) ==
    /\ fwd[h].pc = "hand"
    /\ app = "waiting"
    /\ app' = "busy"
    /\ client' = [client EXCEPT ![fwd[h].child].pc = "accepted"]
    /\ fwd' = [fwd EXCEPT ![h] = [pc |-> "check", child |-> Nil]]
    /\ UNCHANGED <<ml, closing, adding, host, chan, panicked>>

\* Mutant: accept that gives up at the first tick.
GiveUpAtTick(h) ==
    /\ fwd[h].pc = "hand"
    /\ client' = [client EXCEPT ![fwd[h].child].pc = "dropped"]
    /\ fwd' = [fwd EXCEPT ![h] = [pc |-> "check", child |-> Nil]]
    /\ UNCHANGED <<ml, closing, adding, host, chan, app, panicked>>

\* accept: the listener is closed, and the child is let go of.
GiveUp(h) ==
    /\ fwd[h].pc = "hand"
    /\ ml.closed
    /\ client' = [client EXCEPT ![fwd[h].child].pc = "dropped"]
    /\ fwd' = [fwd EXCEPT ![h] = [pc |-> "check", child |-> Nil]]
    /\ UNCHANGED <<ml, closing, adding, host, chan, app, panicked>>

\* forward's deferred call of edgeListener.Close().
ForwardCloses(h) ==
    /\ fwd[h].pc = "close"
    /\ \/ Wins(h, "forward") /\ fwd' = [fwd EXCEPT ![h].pc = "sending"]
       \/ Loses(h) /\ fwd' = [fwd EXCEPT ![h].pc = "closer"]
    /\ UNCHANGED <<ml, closing, adding, chan, client, app, panicked>>

\* forward's deferred call of closer, under listenerLock.
Closer(h) ==
    /\ fwd[h].pc = "closer"
    /\ ml.lock = NoOne
    /\ ml' = [ml EXCEPT !.listeners = @ \ {h}]
    /\ fwd' = [fwd EXCEPT ![h].pc = "done"]
    /\ UNCHANGED <<closing, adding, host, chan, client, app, panicked>>

\* Close: the swap of the closed flag.
Close ==
    /\ ~ml.closed
    /\ ml' = [ml EXCEPT !.closed = TRUE]
    /\ closing' = [closing EXCEPT !.pc = "lock"]
    /\ UNCHANGED <<adding, host, fwd, chan, client, app, panicked>>

\* Close takes listenerLock.
CloseLocks ==
    /\ closing.pc = "lock"
    /\ ml.lock = NoOne
    /\ ml' = [ml EXCEPT !.lock = "Close"]
    /\ closing' = [pc |-> "walk", todo |-> ml.listeners]
    /\ UNCHANGED <<adding, host, fwd, chan, client, app, panicked>>

\* Close walks the map: child.Close() of each.
CloseChild ==
    /\ closing.pc = "walk"
    /\ \E h \in closing.todo :
         \/ Wins(h, "Close") /\ closing' = [closing EXCEPT !.pc = "sending"]
         \/ Loses(h) /\ closing' = [closing EXCEPT !.todo = @ \ {h}]
    /\ UNCHANGED <<ml, adding, fwd, chan, client, app, panicked>>

\* Mutant: Close that returns without unlocking.
CloseKeepsLock ==
    /\ closing.pc = "walk" /\ closing.todo = {}
    /\ ml' = [ml EXCEPT !.listeners = {}, !.gone = TRUE]
    /\ app' = IF app = "waiting" THEN "ended" ELSE app
    /\ closing' = [closing EXCEPT !.pc = "done"]
    /\ UNCHANGED <<adding, host, fwd, chan, client, panicked>>

\* Close clears the map, wakes a goroutine waiting in AcceptEdge if there is
\* one, and returns.
CloseReturns ==
    /\ closing.pc = "walk" /\ closing.todo = {}
    /\ ml' = [ml EXCEPT !.listeners = {}, !.gone = TRUE, !.lock = NoOne]
    /\ app' = IF app = "waiting" THEN "ended" ELSE app
    /\ closing' = [closing EXCEPT !.pc = "done"]
    /\ UNCHANGED <<adding, host, fwd, chan, client, panicked>>

\* The application calls AcceptEdge, which fails once the listener is closed.
AcceptEdge ==
    /\ app = "busy"
    /\ app' = IF ml.closed THEN "ended" ELSE "waiting"
    /\ UNCHANGED <<ml, closing, adding, host, fwd, chan, client, panicked>>

\* AcceptEdge: the ticker lets it see that the listener is closed.
AcceptEdgeTicks ==
    /\ app = "waiting"
    /\ ml.closed
    /\ app' = "ended"
    /\ UNCHANGED <<ml, closing, adding, host, fwd, chan, client, panicked>>

-----------------------------------------------------------------------------
Forward(h) ==
    \/ ForwardChecks(h) \/ ForwardTakes(h) \/ ForwardTicks(h)
    \/ HandOver(h) \/ GiveUp(h) \/ ForwardCloses(h) \/ Closer(h)

Closes == CloseLocks \/ CloseChild \/ CloseReturns

Next ==
    /\ ~panicked
    /\ \/ \E k \in Clients, h \in Hosts : Dial(k, h)
       \/ \E k \in Clients : newChildConnection(k)
       \/ \E h \in Hosts : \/ SendNil(h) \/ StateClosed(h) \/ ChannelClosed(h)
                          \/ MuxNotifies(h) \/ Listen(h) \/ AddListener(h) \/ AddLocked(h)
                          \/ Forward(h)
       \/ Close \/ Closes \/ AcceptEdge \/ AcceptEdgeTicks

Spec == Init /\ [][Next]_vars

(***************************************************************************)
(* Every goroutine that can take a step is scheduled, the tickers of       *)
(* forward and AcceptEdge fire, and the application keeps calling          *)
(* AcceptEdge.  Binds, dial requests, state closed messages, closing       *)
(* channels and the application's Close may or may not happen.             *)
(***************************************************************************)
Fairness ==
    /\ \A k \in Clients : WF_vars(~panicked /\ newChildConnection(k))
    /\ \A h \in Hosts :
         /\ WF_vars(~panicked /\ SendNil(h))
         /\ WF_vars(~panicked /\ MuxNotifies(h))
         /\ WF_vars(~panicked /\ (AddListener(h) \/ AddLocked(h)))
         /\ WF_vars(~panicked /\ Forward(h))
    /\ WF_vars(~panicked /\ Closes)
    /\ WF_vars(~panicked /\ (AcceptEdge \/ AcceptEdgeTicks))

FairSpec == Spec /\ Fairness

-----------------------------------------------------------------------------
\* When Close returns, every hosting connection that was ever added is closed,
\* also one added or removed while Close was waiting for the lock
\* (listener.go:319): no forwarded connection outlives the listener.
CloseClosesAll ==
    closing.pc = "done" => \A h \in Hosts : fwd[h].pc # "none" => host[h].closed

\* With room in the accept queues, every close ends: the listener's Close
\* returns, a closing channel has all its sinks notified, the receiver that
\* got a state closed message goes back to receiving, and forward ends
\* (hosting_conn.go:417).
ClosesEnd ==
    /\ (closing.pc = "lock") ~> (closing.pc = "done" \/ panicked)
    /\ \A h \in Hosts :
         /\ (chan[h].mux = "closing") ~> (chan[h].todo = {} \/ panicked)
         /\ (chan[h].receiver = "sending") ~> (chan[h].receiver = "ready" \/ panicked)
         /\ (fwd[h].pc # "none" /\ (host[h].closed \/ ml.closed)) ~>
              (fwd[h].pc = "done" \/ panicked)

\* While neither its hosting connection nor the listener closes, a child made
\* for a dial request reaches an application that keeps accepting.
DialReachesApp ==
    \A k \in Clients :
        (client[k].pc = "sending") ~>
            \/ client[k].pc = "accepted"
            \/ ml.closed
            \/ \E h \in Hosts : client[k].host = h /\ host[h].closed

=============================================================================
