------------------------------ MODULE ConnMux ------------------------------
(***************************************************************************)
(* The connection multiplexer of one router channel                        *)
(* (zt/edge/msg_mux.go, ConnMuxImpl) with the goroutines that use it:      *)
(* dials (NewDialConn), listens (NewListenConn) and the children of a      *)
(* hosting connection (newChildConnection) each take a connection id and   *)
(* register themselves under it; connections remove themselves when they   *)
(* close; and the channel's close handler closes the mux, which notifies   *)
(* the connections registered at that moment.                              *)
(*                                                                         *)
(* GetNextId and Add are several atomic operations, one action each: the   *)
(* counter's AddUint32 and StoreUint32, the lookup in the concurrent map,  *)
(* the load of the closed flag, and the map's SetIfAbsent.  Remove deletes *)
(* whatever is registered under the connection's id.                       *)
(***************************************************************************)
EXTENDS Naturals

CONSTANTS
    Dials,          \* connections made by NewDialConn
    Hosts,          \* hosting connections made by NewListenConn
    Children,       \* connections made by newChildConnection for a dial request
    MaxId,          \* maxId: ids from GetNextId are below it (MaxUint32/2 - 1)
    FirstId,        \* the counter's value when the modelled behaviour starts
    RouterIds,      \* ids the router puts in RouterProvidedConnId, {} if it does not
    RouterReuses    \* whether a router may provide an id that is in use

Conns == Dials \union Hosts \union Children

ASSUME MuxAssumption ==
    /\ MaxId \in Nat \ {0}
    /\ FirstId \in 0..(MaxId - 1)
    /\ RouterIds \subseteq {i \in Nat : i >= MaxId}
    /\ RouterReuses \in BOOLEAN
    /\ Dials \intersect Hosts = {}
    /\ Dials \intersect Children = {}
    /\ Hosts \intersect Children = {}

NoId == 0           \* GetNextId never returns 0: it adds one before it looks

\* Where a connection's goroutine is.
Steps == {"idle", "next", "look", "reset", "add", "set",
          "open", "refused", "duplicate", "closing", "done"}

VARIABLES
    nextId,         \* ConnMuxImpl.nextId
    conn,           \* [pc, id] of every connection
    sinks,          \* ConnMuxImpl.sinks, as the set of <<id, connection>> entries
    closed,         \* ConnMuxImpl.closed
    closer,         \* Close: "idle", "items", "notify"
    items,          \* the connections Close still has to notify
    wrapped,        \* history: the counter was reset to minId
    atClose,        \* history: what was registered when closed was set
    notified        \* history: how often HandleMuxClose ran for each connection

vars == <<nextId, conn, sinks, closed, closer, items, wrapped, atClose, notified>>

closeVars == <<closed, closer, items, atClose, notified>>

-----------------------------------------------------------------------------
Init ==
    /\ nextId = FirstId
    /\ conn = [c \in Conns |-> [pc |-> "idle", id |-> NoId]]
    /\ sinks = {}
    /\ closed = FALSE
    /\ closer = "idle"
    /\ items = {}
    /\ wrapped = FALSE
    /\ atClose = {}
    /\ notified = [c \in Conns |-> 0]

At(c, pc) == conn[c].pc = pc

Goto(c, pc) == conn' = [conn EXCEPT ![c].pc = pc]

InUse(i) == \E e \in sinks : e[1] = i

Registered == {c \in Conns : \E e \in sinks : e[2] = c}

\* The connections that have been given an id and are not finished with it.
Holds(c) == conn[c].pc \in {"add", "set", "open", "refused", "duplicate", "closing"}

\* The call of GetNextId for a new connection.
StartGetNextId(c) ==
    /\ c \in Children => RouterIds = {}
    /\ At(c, "idle")
    /\ Goto(c, "next")
    /\ UNCHANGED <<nextId, sinks, wrapped, closeVars>>

\* newChildConnection: the router put the id in the dial request.  The router
\* is outside the repository; an id it provides is unused unless RouterReuses.
UseRouterProvidedId(c) ==
    /\ c \in Children
    /\ At(c, "idle")
    /\ \E i \in RouterIds :
         /\ RouterReuses \/ \A d \in Conns : Holds(d) => conn[d].id # i
         /\ conn' = [conn EXCEPT ![c] = [pc |-> "add", id |-> i]]
    /\ UNCHANGED <<nextId, sinks, wrapped, closeVars>>

\* atomic.AddUint32(&mux.nextId, 1).
AddUint32(c) ==
    /\ At(c, "next")
    /\ nextId' = nextId + 1
    /\ conn' = [conn EXCEPT ![c] = [pc |-> "look", id |-> nextId']]
    /\ UNCHANGED <<sinks, wrapped, closeVars>>

\* The loop of GetNextId: an id in use moves on to the next one, a free id out
\* of range resets the counter, any other is returned.
Lookup(c) ==
    /\ At(c, "look")
    /\ Goto(c, IF InUse(conn[c].id) THEN "next"
               ELSE IF conn[c].id >= MaxId THEN "reset" ELSE "add")
    /\ UNCHANGED <<nextId, sinks, wrapped, closeVars>>

\* atomic.StoreUint32(&mux.nextId, mux.minId); minId is 0.
StoreUint32(c) ==
    /\ At(c, "reset")
    /\ nextId' = 0
    /\ wrapped' = TRUE
    /\ Goto(c, "next")
    /\ UNCHANGED <<sinks, closeVars>>

\* Add: the check of the closed flag.
AddCheckClosed(c) ==
    /\ At(c, "add")
    /\ Goto(c, IF closed THEN "refused" ELSE "set")
    /\ UNCHANGED <<nextId, sinks, wrapped, closeVars>>

\* Add: SetIfAbsent.
AddSetIfAbsent(c) ==
    /\ At(c, "set")
    /\ IF InUse(conn[c].id)
       THEN /\ Goto(c, "duplicate")
            /\ UNCHANGED sinks
       ELSE /\ Goto(c, "open")
            /\ sinks' = sinks \union {<<conn[c].id, c>>}
    /\ UNCHANGED <<nextId, wrapped, closeVars>>

\* The pc a connection has once its close has begun: edgeHostConn.close never
\* removes the connection from the mux, edgeConn.close does so last.
Closing(c) == IF c \in Hosts THEN "done" ELSE "closing"

\* edgeConn.close or edgeHostConn.close, called by the application, by a state
\* closed message, or, for a child that could not be added, by
\* cleanupAndReportError.  NewDialConn and NewListenConn only log the error of
\* Add, so a connection that was refused can be closed too.
CloseConn(c) ==
    /\ conn[c].pc \in {"open", "refused", "duplicate"}
    /\ Goto(c, Closing(c))
    /\ UNCHANGED <<nextId, sinks, wrapped, closeVars>>

\* Mutant: a close that leaves the connection registered.
RemoveForgotten(c) ==
    /\ At(c, "closing")
    /\ Goto(c, "done")
    /\ UNCHANGED <<nextId, sinks, wrapped, closeVars>>

\* Remove, which is RemoveByConnId of the connection's id.
Remove(c) ==
    /\ At(c, "closing")
    /\ Goto(c, "done")
    /\ sinks' = {e \in sinks : e[1] # conn[c].id}
    /\ UNCHANGED <<nextId, wrapped, closeVars>>

\* Close: the swap of the closed flag.
MuxClose ==
    /\ ~closed
    /\ closed' = TRUE
    /\ closer' = "items"
    /\ atClose' = Registered
    /\ UNCHANGED <<nextId, conn, sinks, items, wrapped, notified>>

\* Close: mux.sinks.Items().
Items ==
    /\ closer = "items"
    /\ closer' = "notify"
    /\ items' = Registered
    /\ UNCHANGED <<nextId, conn, sinks, closed, wrapped, atClose, notified>>


\* Close: HandleMuxClose of one of the sinks, which closes the connection
\* unless it is closed already.
HandleMuxClose ==
    /\ closer = "notify"
    /\ \E c \in items :
         /\ items' = items \ {c}
         /\ notified' = [notified EXCEPT ![c] = @ + 1]
         /\ conn' = [conn EXCEPT ![c].pc = IF @ = "open" THEN Closing(c) ELSE @]
    /\ UNCHANGED <<nextId, sinks, closed, closer, wrapped, atClose>>

-----------------------------------------------------------------------------
Getting(c) == AddUint32(c) \/ Lookup(c) \/ StoreUint32(c)

ConnStep(c) ==
    \/ StartGetNextId(c)
    \/ UseRouterProvidedId(c)
    \/ Getting(c)
    \/ AddCheckClosed(c)
    \/ AddSetIfAbsent(c)
    \/ CloseConn(c)
    \/ Remove(c)

Next ==
    \/ \E c \in Conns : ConnStep(c)
    \/ MuxClose
    \/ Items
    \/ HandleMuxClose

Spec == Init /\ [][Next]_vars

(***************************************************************************)
(* A goroutine inside GetNextId, Add or close, and one inside the mux's    *)
(* Close, is scheduled again.  Whether a connection is made, whether it is *)
(* closed and whether the channel closes is up to the environment.         *)
(***************************************************************************)
Proceeds(c) == Getting(c) \/ AddCheckClosed(c) \/ AddSetIfAbsent(c) \/ Remove(c)
MuxCloses == Items \/ HandleMuxClose

-----------------------------------------------------------------------------
\* The state of the mux and of its users has its type, no id is registered for
\* two connections (the map's keys are unique), and the closed flag is set
\* exactly when Close has been called.
TypeOK ==
    /\ nextId \in Nat
    /\ conn \in [Conns -> [pc : Steps, id : Nat]]
    /\ sinks \subseteq Nat \X Conns
    /\ \A e, f \in sinks : e[1] = f[1] => e = f
    /\ closer \in {"idle", "items", "notify"}
    /\ closed = (closer # "idle")
    /\ items \subseteq Conns
    /\ wrapped \in BOOLEAN
    /\ atClose \subseteq Conns
    /\ notified \in [Conns -> Nat]

\* Until the counter first wraps, GetNextId and the router's ids between them
\* give every connection an id of its own, however the goroutines that
\* allocate one interleave (msg_mux.go:335, hosting_conn.go:291).
IdsDistinct ==
    ~wrapped /\ ~RouterReuses =>
        \A c, d \in Conns : Holds(c) /\ Holds(d) /\ conn[c].id = conn[d].id => c = d

\* "Remove unregisters the specified message handler" (msg_mux.go:157): a
\* connection that was added and whose own close has not begun stays
\* registered, whoever else fails to be added or is removed.
OpenStaysRegistered ==
    \A c \in Conns : At(c, "open") => <<conn[c].id, c>> \in sinks

\* The table holds no connection that has removed itself or that was never
\* added, and each under its own id: a message is never routed to a connection
\* that is gone (HandleReceive, msg_mux.go:367).  Hosting connections are the
\* exception: their close leaves them registered.
RoutesToOwner ==
    \A e \in sinks : /\ conn[e[2]].id = e[1]
                     /\ conn[e[2]].pc \in
                          {"open", IF e[2] \in Hosts THEN "done" ELSE "closing"}

\* Close runs HandleMuxClose at most once for a connection (msg_mux.go:485):
\* an edgeHostConn or an edgeConn is told once that its channel is gone.
NotifiedOnce == \A c \in Conns : notified[c] <= 1


=============================================================================
