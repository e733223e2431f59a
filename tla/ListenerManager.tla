-------------------------- MODULE ListenerManager --------------------------
(***************************************************************************)
(* The listenerManager of zt/zt.go: one goroutine, run, keeps a service    *)
(* bound to up to MaxTerminators edge routers while routers come and go,   *)
(* sessions are revoked and the controller is silent or rejects the        *)
(* identity.  Its fields belong to run alone, so an iteration of its loop  *)
(* is one step; the goroutines that connect to routers, create listeners   *)
(* and report their end take steps of their own and meet run at its        *)
(* channels.  A router has one accepted URL.                               *)
(***************************************************************************)
EXTENDS Integers, Sequences, FiniteSets

CONSTANTS Routers,          \* the edge routers that may host the service
          MaxTerminators,   \* ListenOptions.MaxTerminators
          ConnectChanSize,  \* capacity of connectChan
          EventChanSize,    \* capacity of the options' event channel
          MaxConnects,      \* bound: connects to one router at a time
          MaxFaults         \* bound: closes and faults of the environment

ASSUME ManagerAssumption ==
    /\ IsFiniteSet(Routers)
    /\ MaxTerminators \in Nat \ {0} /\ MaxConnects \in Nat \ {0}
    /\ MaxFaults \in Nat /\ ConnectChanSize \in Nat \ {0} /\ EventChanSize \in Nat \ {0}

VARIABLES
    mgr,          \* run: its step, session, routerConnections and connects
    connecting,   \* connecting[r]: goroutines in handleConnectEdgeRouter
    connectChan,  \* their results
    creating,     \* creating[r]: the session createListener binds with, if any
    listeners,    \* routers with an open hosting connection in the multiListener
    failing,      \* routers whose ListenFailed event waits for run
    succeeding,   \* routers whose createListener waits to send listenSuccess
    events,       \* the options' event channel
    closed,       \* the multiListener is closed
    ctxClosed,    \* context.closeNotify
    up,           \* routers that are reachable
    ctrl,         \* the controller: answers, is silent, rejects the identity,
                  \* or denies it the service
    faults        \* closes and faults so far

envVars == <<ctxClosed, up, ctrl, faults>>
goVars == <<connecting, creating, succeeding>>
vars == <<mgr, connectChan, listeners, failing, events, closed, goVars, envVars>>

NoSession == [live |-> FALSE, routers |-> {"nil"}]

\* newListenerManager: run starts without a session.
Init ==
    /\ mgr = [pc |-> "session", session |-> NoSession, conns |-> {}, connects |-> {}]
    /\ connecting = [r \in Routers |-> 0] /\ connectChan = <<>>
    /\ creating = [r \in Routers |-> "none"]
    /\ listeners = {} /\ failing = {} /\ succeeding = {} /\ events = <<>>
    /\ closed = FALSE /\ ctxClosed = FALSE
    /\ up = Routers /\ ctrl = "answers" /\ faults = 0

-----------------------------------------------------------------------------
(* Operators on the state [mgr, closed] that an iteration passes through.    *)

\* multiListener.Close: the hosting connections end, and with each a closeHandler.
Closes(s) == [s EXCEPT !.closed = TRUE]

\* createSessionWithBackoff, whose retries also refresh an expired API session.
CreateSession(s) ==
    IF ctrl = "answers"
    THEN [s EXCEPT !.mgr.session = [live |-> TRUE, routers |-> up]]
    ELSE s

\* createSessionWithPermissionCheck: losing access closes the listener.
CreateOrClose(s) == IF ctrl = "denies" THEN Closes(s) ELSE CreateSession(s)

\* EnsureAuthenticated takes an error as final: it tries once.
EnsureAuthenticated == ctrl # "rejects"

\* refreshSession, when the last refresh is 30 s ago: a silent controller leaves
\* the session in hand, a session the controller does not know is replaced, and
\* an identity it rejects ends a listener with no routers left.
Refresh(s) ==
    LET session == s.mgr.session IN
    CASE session = NoSession -> CreateOrClose(s)
      [] session # NoSession /\ ctrl = "silent" -> s
      [] session # NoSession /\ ~EnsureAuthenticated -> IF s.mgr.conns = {} THEN Closes(s) ELSE s
      [] session # NoSession /\ ctrl \in {"answers", "denies"} ->
           IF session.live THEN [s EXCEPT !.mgr.session.routers = up] ELSE CreateOrClose(s)

\* makeMoreListeners connects to the routers of the session that are neither
\* listed nor being connected to.
Wanted(s) ==
    LET m == s.mgr IN
    IF s.closed \/ Cardinality(m.conns) >= MaxTerminators
       \/ Cardinality(m.session.routers) <= Cardinality(m.conns)
    THEN {}
    ELSE m.session.routers \ (m.conns \cup m.connects)

\* The loop's condition, when the iteration is over.
NextPc(s) == IF s.closed THEN "exited" ELSE "select"

\* The listener closes, or stays as it is.
ListenerAfter(s) ==
    /\ closed' = s.closed
    /\ IF s.closed THEN listeners' = {} /\ failing' = failing \cup listeners
                   ELSE UNCHANGED <<listeners, failing>>

\* It reads the session's routers first: without a session run panics.
MakeMoreListeners(s) ==
    \/ /\ s.mgr.session = NoSession
       /\ mgr' = [s.mgr EXCEPT !.pc = "panicked"]
       /\ UNCHANGED connecting
    \/ /\ s.mgr.session # NoSession
       /\ mgr' = [s.mgr EXCEPT !.pc = NextPc(s), !.connects = @ \cup Wanted(s)]
       /\ connecting' = [r \in Routers |-> connecting[r] + IF r \in Wanted(s) THEN 1 ELSE 0]

Current == [mgr |-> mgr, closed |-> closed]

-----------------------------------------------------------------------------
(* run.                                                                      *)

\* Mutant: run keeps trying for its first session when the context is closed.
InitialSessionForEver ==
    /\ mgr.pc = "session"
    /\ LET s == CreateOrClose(Current) IN
       /\ ListenerAfter(s)
       /\ mgr' = [s.mgr EXCEPT !.pc = IF s.closed THEN "exited"
                                      ELSE IF s.mgr.session = NoSession THEN "session"
                                      ELSE "first"]
    /\ UNCHANGED <<goVars, connectChan, events, envVars>>

\* "binding takes a session: keep trying until one is made, access is denied,
\* or the listener or context is closed".
InitialSession ==
    /\ mgr.pc = "session"
    /\ LET created == CreateOrClose(Current)
           s == IF created = Current /\ ctxClosed THEN Closes(Current) ELSE created IN
       /\ ListenerAfter(s)
       /\ mgr' = [s.mgr EXCEPT !.pc = IF s.closed THEN "exited"
                                      ELSE IF s.mgr.session = NoSession THEN "session"
                                      ELSE "first"]
    /\ UNCHANGED <<goVars, connectChan, events, envVars>>

\* The call of makeMoreListeners before the loop.
FirstListeners ==
    /\ mgr.pc = "first"
    /\ MakeMoreListeners(Current)
    /\ UNCHANGED <<creating, succeeding, connectChan, listeners, failing, events, closed,
                   envVars>>

\* Mutant: a second connection to a router that is already listed.
HandleAnyResult ==
    LET r == Head(connectChan).router
        m == [mgr EXCEPT !.connects = @ \ {r}] IN
    /\ mgr.pc = "select" /\ connectChan # <<>>
    /\ connectChan' = Tail(connectChan)
    /\ \/ /\ Head(connectChan).outcome = "conn" /\ Cardinality(mgr.conns) < MaxTerminators
          /\ mgr' = [m EXCEPT !.conns = @ \cup {r},
                              !.pc = IF m.session = NoSession THEN "panicked" ELSE NextPc(Current)]
          /\ creating' = [creating EXCEPT ![r] = IF mgr.session.live THEN "live" ELSE "dead"]
       \/ /\ Head(connectChan).outcome = "err" \/ Cardinality(mgr.conns) >= MaxTerminators
          /\ mgr' = [m EXCEPT !.pc = NextPc(Current)]
          /\ UNCHANGED creating
    /\ UNCHANGED <<connecting, succeeding, listeners, failing, events, closed, envVars>>

\* A router connected, or not: createListener starts if there is room for one
\* more and the router has none. It needs the token of the session.
handleRouterConnectResult ==
    LET r == Head(connectChan).router
        m == [mgr EXCEPT !.connects = @ \ {r}]
        starts == /\ Head(connectChan).outcome = "conn"
                  /\ Cardinality(mgr.conns) < MaxTerminators
                  /\ r \notin mgr.conns IN
    /\ mgr.pc = "select" /\ connectChan # <<>>
    /\ connectChan' = Tail(connectChan)
    /\ \/ /\ starts
          /\ mgr' = [m EXCEPT !.conns = @ \cup {r},
                              !.pc = IF m.session = NoSession THEN "panicked" ELSE NextPc(Current)]
          /\ creating' = [creating EXCEPT ![r] = IF mgr.session.live THEN "live" ELSE "dead"]
       \/ /\ ~starts
          /\ mgr' = [m EXCEPT !.pc = NextPc(Current)]
          /\ UNCHANGED creating
    /\ UNCHANGED <<connecting, succeeding, listeners, failing, events, closed, envVars>>

\* Mutant: the entry of the router stays.
FailedKeepsEntry(r, refreshed) ==
    LET s == IF refreshed THEN Refresh(Current) ELSE Current IN
    /\ mgr.pc = "select" /\ r \in failing
    /\ MakeMoreListeners(s)
    /\ closed' = s.closed
    /\ failing' = (failing \ {r}) \cup (IF s.closed THEN listeners ELSE {})
    /\ listeners' = IF s.closed THEN {} ELSE listeners
    /\ UNCHANGED <<creating, succeeding, connectChan, events, envVars>>

\* routerConnectionListenFailedEvent.handle: forget the router, refresh the
\* session unless that was done in the last 30 s, and connect again.
handleListenFailed(r, refreshed) ==
    LET forgot == [mgr |-> [mgr EXCEPT !.conns = @ \ {r}], closed |-> closed]
        s == IF refreshed THEN Refresh(forgot) ELSE forgot IN
    /\ mgr.pc = "select" /\ r \in failing
    /\ MakeMoreListeners(s)
    /\ closed' = s.closed
    /\ failing' = (failing \ {r}) \cup (IF s.closed THEN listeners ELSE {})
    /\ listeners' = IF s.closed THEN {} ELSE listeners
    /\ UNCHANGED <<creating, succeeding, connectChan, events, envVars>>

\* listenSuccessEvent.handle tells the observers; createListener then offers an
\* established event, which is dropped when there is no room.
handleListenSuccess(r) ==
    /\ mgr.pc = "select" /\ r \in succeeding
    /\ succeeding' = succeeding \ {r}
    /\ events' = IF Len(events) < EventChanSize THEN Append(events, "established") ELSE events
    /\ mgr' = [mgr EXCEPT !.pc = NextPc(Current)]
    /\ UNCHANGED <<connecting, creating, connectChan, listeners, failing, closed, envVars>>

\* The refresh timer.
RefreshTimer ==
    LET s == Refresh(Current) IN
    /\ mgr.pc = "select"
    /\ ListenerAfter(s)
    /\ mgr' = [s.mgr EXCEPT !.pc = NextPc(s)]
    /\ UNCHANGED <<goVars, connectChan, events, envVars>>

\* The one second ticker.
Ticker ==
    /\ mgr.pc = "select"
    /\ MakeMoreListeners(Current)
    /\ UNCHANGED <<creating, succeeding, connectChan, listeners, failing, events, closed,
                   envVars>>

\* An event of a hosting connection: it is established, its router wants run to
\* start over with a new session, or to give up.
HandleHostEvent ==
    LET s == CASE Head(events) = "established" -> Current
               [] Head(events) = "startOver" ->
                    Refresh([mgr |-> [mgr EXCEPT !.session = NoSession], closed |-> closed])
               [] Head(events) = "notRetriable" -> Closes(Current) IN
    /\ mgr.pc = "select" /\ events # <<>>
    /\ events' = Tail(events)
    /\ ListenerAfter(s)
    /\ mgr' = [s.mgr EXCEPT !.pc = NextPc(s)]
    /\ UNCHANGED <<goVars, connectChan, envVars>>

ContextClosed ==
    /\ mgr.pc = "select" /\ ctxClosed
    /\ ListenerAfter(Closes(Current))
    /\ mgr' = [mgr EXCEPT !.pc = "exited"]
    /\ UNCHANGED <<goVars, connectChan, events, envVars>>

-----------------------------------------------------------------------------
(* The goroutines around run.                                                *)

\* A connect younger than 30 s keeps makeMoreListeners from another.
ConnectExpires(r) ==
    /\ r \in mgr.connects /\ connecting[r] < MaxConnects
    /\ mgr' = [mgr EXCEPT !.connects = @ \ {r}]
    /\ UNCHANGED <<goVars, connectChan, listeners, failing, events, closed, envVars>>

\* handleConnectEdgeRouter: the result is sent, or lost after 10 s without room.
handleConnectEdgeRouter(r) ==
    /\ connecting[r] > 0
    /\ connecting' = [connecting EXCEPT ![r] = @ - 1]
    /\ IF Len(connectChan) < ConnectChanSize
       THEN connectChan' = Append(connectChan, [router |-> r, outcome |-> IF r \in up THEN "conn" ELSE "err"])
       ELSE UNCHANGED connectChan
    /\ UNCHANGED <<mgr, creating, succeeding, listeners, failing, events, closed, envVars>>

\* createListener: the router accepts the bind. AddListener ignores the hosting
\* connection once the listener is closed.
ListenSucceeds(r) ==
    /\ creating[r] = "live" /\ r \in up
    /\ creating' = [creating EXCEPT ![r] = "none"]
    /\ listeners' = IF closed THEN listeners ELSE listeners \cup {r}
    /\ succeeding' = succeeding \cup {r}
    /\ UNCHANGED <<mgr, connecting, connectChan, failing, events, closed, envVars>>

\* createListener: the router is gone or does not know the session.
ListenFails(r) ==
    /\ creating[r] = "dead" \/ (creating[r] = "live" /\ r \notin up)
    /\ creating' = [creating EXCEPT ![r] = "none"]
    /\ failing' = failing \cup {r}
    /\ UNCHANGED <<mgr, connecting, succeeding, connectChan, listeners, events, closed,
                   envVars>>

\* A closeHandler, or a createListener that failed, stops waiting for run.
StopsWaiting(r) ==
    /\ ctxClosed /\ r \in failing
    /\ failing' = failing \ {r}
    /\ UNCHANGED <<mgr, goVars, connectChan, listeners, events, closed, envVars>>

-----------------------------------------------------------------------------
(* The application, the routers and the controller.                          *)

Fault ==
    /\ faults < MaxFaults
    /\ faults' = faults + 1

AppCloses ==
    /\ Fault /\ ~closed
    /\ ListenerAfter(Closes(Current))
    /\ UNCHANGED <<mgr, goVars, connectChan, events, ctxClosed, up, ctrl>>

ContextCloses ==
    /\ Fault /\ ~ctxClosed
    /\ ctxClosed' = TRUE
    /\ UNCHANGED <<mgr, goVars, connectChan, listeners, failing, events, closed, up, ctrl>>

\* A router that goes down takes its hosting connections with it.
RouterFails(r) ==
    /\ Fault /\ r \in up
    /\ up' = up \ {r}
    /\ listeners' = listeners \ {r}
    /\ failing' = failing \cup (listeners \cap {r})
    /\ UNCHANGED <<mgr, goVars, connectChan, events, closed, ctxClosed, ctrl>>

\* Its router closes a hosting connection, and may say why. forward ends and its
\* closeHandler has an event for run.
HostCloses(r, hint) ==
    /\ Fault /\ r \in listeners
    /\ events' = IF hint # "none" /\ Len(events) < EventChanSize
                 THEN Append(events, hint) ELSE events
    /\ listeners' = listeners \ {r} /\ failing' = failing \cup {r}
    /\ UNCHANGED <<mgr, goVars, connectChan, closed, ctxClosed, up, ctrl>>

ControllerFails ==
    /\ Fault /\ ctrl = "answers"
    /\ ctrl' \in {"silent", "rejects", "denies"}
    /\ UNCHANGED <<mgr, goVars, connectChan, listeners, failing, events, closed, ctxClosed, up>>

\* The controller forgets the sessions it has handed out.
SessionsRevoked ==
    /\ Fault
    /\ mgr.session.live \/ \E r \in Routers : creating[r] = "live"
    /\ mgr' = [mgr EXCEPT !.session.live = FALSE]
    /\ creating' = [r \in Routers |-> IF creating[r] = "live" THEN "dead" ELSE creating[r]]
    /\ UNCHANGED <<connecting, succeeding, connectChan, listeners, failing, events, closed,
                   ctxClosed, up, ctrl>>

\* What failed may come back.
Recovers ==
    /\ \/ up # Routers /\ up' = Routers /\ UNCHANGED ctrl
       \/ ctrl # "answers" /\ ctrl' = "answers" /\ UNCHANGED up
    /\ UNCHANGED <<mgr, goVars, connectChan, listeners, failing, events, closed, ctxClosed,
                   faults>>

-----------------------------------------------------------------------------
Run ==
    \/ InitialSession \/ FirstListeners
    \/ handleRouterConnectResult \/ RefreshTimer \/ Ticker \/ HandleHostEvent \/ ContextClosed
    \/ \E r \in Routers : handleListenSuccess(r) \/ \E b \in BOOLEAN : handleListenFailed(r, b)

Environment ==
    \/ AppCloses \/ ContextCloses \/ ControllerFails \/ SessionsRevoked \/ Recovers
    \/ \E r \in Routers :
         RouterFails(r) \/ \E h \in {"none", "startOver", "notRetriable"} : HostCloses(r, h)

Next ==
    /\ mgr.pc # "panicked"
    /\ \/ Run
       \/ \E r \in Routers :
            \/ ConnectExpires(r) \/ handleConnectEdgeRouter(r)
            \/ ListenSucceeds(r) \/ ListenFails(r) \/ StopsWaiting(r)
       \/ Environment

Spec == Init /\ [][Next]_vars

(***************************************************************************)
(* Goroutines run, timers fire, and a select takes a case that stays ready *)
(* in the end, as it chooses among those that are.  Nothing is assumed of  *)
(* the application, the routers and the controller.                        *)
(***************************************************************************)
Alive(A) == mgr.pc # "panicked" /\ A

Fairness ==
    /\ WF_vars(Alive(InitialSession \/ FirstListeners))
    /\ WF_vars(Alive(handleRouterConnectResult))
    /\ WF_vars(Alive(RefreshTimer)) /\ WF_vars(Alive(Ticker)) /\ WF_vars(Alive(HandleHostEvent))
    /\ WF_vars(Alive(ContextClosed))
    /\ \A r \in Routers :
         /\ WF_vars(Alive(handleListenSuccess(r)))
         /\ WF_vars(Alive(\E b \in BOOLEAN : handleListenFailed(r, b)))
         /\ WF_vars(Alive(ConnectExpires(r))) /\ WF_vars(Alive(handleConnectEdgeRouter(r)))
         /\ WF_vars(Alive(ListenSucceeds(r) \/ ListenFails(r))) /\ WF_vars(Alive(StopsWaiting(r)))

FairSpec == Spec /\ Fairness

-----------------------------------------------------------------------------
(* Properties.                                                               *)

Owners(r) ==
    (IF creating[r] # "none" THEN 1 ELSE 0) + (IF r \in listeners THEN 1 ELSE 0)
    + (IF r \in failing THEN 1 ELSE 0)

\* "At most one terminator will be established per available edge router"
\* (options.go): while the listener is open, a router is listed in
\* routerConnections exactly when one createListener, one hosting connection or
\* one ListenFailed event answers for it. A router listed without one would
\* never be bound again, a second one would be a second terminator; and there
\* are never more than MaxTerminators.
OneOwner ==
    ~closed /\ ~ctxClosed /\ mgr.pc # "panicked" =>
        /\ \A r \in Routers : Owners(r) = IF r \in mgr.conns THEN 1 ELSE 0
        /\ Cardinality(mgr.conns) <= MaxTerminators

Stable(r) == r \in up /\ ctrl = "answers"

\* When a router is reachable, the controller answers and the identity has
\* access from some time on, the service is bound again and again, whatever
\* routers, sessions and connects were lost before; unless the listener is
\* closed or run has panicked for want of a session.
StaysBound ==
    \A r \in Routers :
        <>[]Stable(r) => []<>(listeners # {} \/ closed \/ mgr.pc = "panicked")

\* When the context closes, run and everything that waits for it end. Left over
\* is a createListener that has been waiting to report its success, which does
\* not look at the context.
EndsWithContext ==
    ctxClosed ~> \/ mgr.pc = "panicked"
                 \/ /\ mgr.pc = "exited" /\ failing = {} /\ listeners = {}
                    /\ \A r \in Routers : creating[r] = "none"
=============================================================================
