---------------------------- MODULE ContextDial ----------------------------
(***************************************************************************)
(* DialWithOptions of a ContextImpl (zt/zt.go): the cache of dial          *)
(* sessions, the map of connections to edge routers and the goroutines     *)
(* that make them, with sessions revoked, routers failing, the service     *)
(* recreated and the controller silent at any time.  One service, and one  *)
(* accepted address per router.  Of the connections to a router the model  *)
(* tells apart the one in the map and those that are open outside of it;   *)
(* of a session, whether the controller and the routers still know it.     *)
(***************************************************************************)
EXTENDS Integers

CONSTANTS Dialers,     \* goroutines that dial
          Routers,     \* the edge routers that may carry the service
          MaxFaults    \* bound: faults of the environment

VARIABLES
    cache,      \* context.sessions: by service id, the dial session
    mapped,     \* context.routerConnections: by router, "none", "open" or
                \* "closed" (closed, and OnClose has not been called yet)
    connects,   \* goroutines in connectEdgeRouter: router, step, who waits
    dial,       \* dial[d]: the call of DialWithOptions
    svc,        \* context.services: the id of the service, 0 if it is not there
    made,       \* the id of the service at the controller, 0 if it has none
    up,         \* routers that can be reached
    ctrl,       \* "answers" or "silent"
    faultsLeft

dialVars == <<cache, mapped, connects, dial, svc, made, up, ctrl, faultsLeft>>

Ids == {1, 2}
NoSession == [svc |-> 0, known |-> FALSE, routers |-> {}]
\* held[r]: the connection to r this dial was given, and what became of it.
Hung == [pc |-> "idle", svc |-> 0, session |-> NoSession, retry |-> FALSE, to |-> "none",
         held |-> [r \in Routers |-> "none"], quiet |-> FALSE]

DialInit ==
    /\ cache = [i \in Ids |-> NoSession] /\ mapped = [r \in Routers |-> "none"]
    /\ connects = {} /\ dial = [d \in Dialers |-> Hung]
    /\ svc = 1 /\ made = 1 /\ up = Routers /\ ctrl = "answers"
    /\ faultsLeft = MaxFaults

-----------------------------------------------------------------------------
(* Sessions.                                                                 *)

\* CreateSession for service id i; what the controller answers.
CreateAnswer(i) == IF ctrl = "silent" THEN "silent" ELSE IF i = made /\ i # 0 THEN "ok" ELSE "notFound"
Created(i) == [svc |-> i, known |-> TRUE, routers |-> up]

\* GetSession and GetSessionFromJwt.
DetailAnswer(s) == IF ctrl = "silent" THEN "silent" ELSE IF s.known THEN "ok" ELSE "notFound"
Refreshed(s) == [s EXCEPT !.routers = up]

\* The cache when session s was looked up: refreshSession stores what it got.
cacheSession(s) == [cache EXCEPT ![s.svc] = Refreshed(s)]

\* refreshSession of a session that the controller answers for.
refreshSession(s) == DetailAnswer(s) = "ok" /\ cache' = cacheSession(s)

\* deleteServiceSessions.
Without(c, i) == IF i = 0 THEN c ELSE [c EXCEPT ![i] = NoSession]

To(d, pc) == dial' = [dial EXCEPT ![d].pc = pc]
Succeeds(d) == dial' = [dial EXCEPT ![d] = Hung]
\* A failure is remembered if nothing disturbed the dial.
Fails(d, quiet) == dial' = [dial EXCEPT ![d] = [Hung EXCEPT !.pc = IF quiet THEN "failed" ELSE "idle"]]
\* What is still connecting for d reports to nobody from now on.
Orphaned(d) == {[c EXCEPT !.for = IF @ = d THEN "none" ELSE @] : c \in connects}

-----------------------------------------------------------------------------
(* DialWithOptions.                                                          *)

\* A dial is undisturbed from the start when the service is there, the controller
\* answers, every connection in the map is open, and the session it will find,
\* if that is good, lists a router that can be reached or none at all.
Calm ==
    /\ svc # 0 /\ made # 0 /\ ctrl = "answers" /\ up # {}
    /\ \A r \in Routers : mapped[r] # "closed"
    /\ cache[svc].known => cache[svc].routers = {} \/ cache[svc].routers \cap up # {}

StartDial(d) ==
    /\ dial[d].pc = "idle" /\ svc # 0
    /\ dial' = [dial EXCEPT ![d] = [Hung EXCEPT !.pc = "session", !.svc = svc, !.quiet = Calm]]
    /\ UNCHANGED <<cache, mapped, connects, svc, made, up, ctrl, faultsLeft>>

\* getOrCreateSession for dial d, leading to pc.
GotOrCreated(d, i, pc) ==
    \/ /\ cache[i] # NoSession
       /\ dial' = [dial EXCEPT ![d].session = cache[i], ![d].svc = i, ![d].pc = pc]
       /\ UNCHANGED cache
    \/ /\ cache[i] = NoSession /\ CreateAnswer(i) = "ok"
       /\ cache' = [cache EXCEPT ![i] = Created(i)]
       /\ dial' = [dial EXCEPT ![d].session = Created(i), ![d].svc = i, ![d].pc = pc]

GetSession(d) ==
    /\ dial[d].pc = "session"
    /\ \/ GotOrCreated(d, dial[d].svc, "route")
       \/ /\ cache[dial[d].svc] = NoSession /\ CreateAnswer(dial[d].svc) # "ok"
          /\ cache' = Without(cache, dial[d].svc)
          /\ To(d, "create")
    /\ UNCHANGED <<mapped, connects, svc, made, up, ctrl, faultsLeft>>

\* The operation of createSessionWithBackoff: the latest service of that name;
\* when the controller does not know it, the services are refreshed and the
\* sessions of a service that is gone deleted.
CreateSession(d) ==
    /\ dial[d].pc = "create" /\ svc # 0
    /\ \/ GotOrCreated(d, svc, "route") /\ UNCHANGED svc
       \/ /\ cache[svc] = NoSession /\ CreateAnswer(svc) # "ok"
          /\ svc' = IF CreateAnswer(svc) = "notFound" THEN made ELSE svc
          /\ cache' = IF svc' # svc THEN Without(cache, svc) ELSE cache
          /\ UNCHANGED dial
    /\ UNCHANGED <<mapped, connects, made, up, ctrl, faultsLeft>>

\* No such service, or the backoff has reached the connect timeout, which
\* disturbs the dial.
CreateFails(d) ==
    /\ dial[d].pc = "create"
    /\ Fails(d, dial[d].quiet /\ svc = 0)
    /\ UNCHANGED <<cache, mapped, connects, svc, made, up, ctrl, faultsLeft>>

\* dialSession failed: the first time the session is looked up.
DialFails(d) ==
    IF dial[d].retry THEN Fails(d, dial[d].quiet)
    ELSE dial' = [dial EXCEPT ![d].pc = "refresh", ![d].held = Hung.held, ![d].to = "none"]

\* getEdgeRouterConn: a session without routers is refreshed first.
RefreshRouters(d) ==
    LET s == dial[d].session IN
    /\ dial[d].pc = "route" /\ s.routers = {}
    /\ \/ /\ refreshSession(s)
          /\ IF up = {} THEN DialFails(d)
             ELSE dial' = [dial EXCEPT ![d].session = Refreshed(s)]
       \/ /\ DetailAnswer(s) # "ok"
          /\ cache' = IF DetailAnswer(s) = "notFound" THEN Without(cache, s.svc) ELSE cache
          /\ DialFails(d)
    /\ UNCHANGED <<mapped, connects, svc, made, up, ctrl, faultsLeft>>

\* getEdgeRouterConn: a connection that is in the map, open or not, is used; the
\* routers that have none are connected to, and waited for if need be.
ChooseRouter(d) ==
    LET s == dial[d].session
        known == {r \in s.routers : mapped[r] # "none"}
        start(for) == {[router |-> r, pc |-> "look", for |-> for] : r \in s.routers \ known} IN
    /\ dial[d].pc = "route" /\ s.routers # {}
    /\ \/ /\ known # {}
          /\ \E r \in known : dial' = [dial EXCEPT ![d].pc = "connect", ![d].to = r,
                                                   ![d].held[r] = mapped[r]]
          /\ connects' = Orphaned(d) \cup start("none")
       \/ /\ known = {}
          /\ dial' = [dial EXCEPT ![d].pc = "wait", ![d].held = Hung.held]
          /\ connects' = Orphaned(d) \cup start(d)
    /\ UNCHANGED <<cache, mapped, svc, made, up, ctrl, faultsLeft>>

TakeConnection(d) ==
    /\ dial[d].pc = "wait"
    /\ \E r \in Routers :
         /\ dial[d].held[r] # "none"
         /\ dial' = [dial EXCEPT ![d].pc = "connect", ![d].to = r,
                                 ![d].held = [Hung.held EXCEPT ![r] = dial[d].held[r]]]
    /\ connects' = Orphaned(d)
    /\ UNCHANGED <<cache, mapped, svc, made, up, ctrl, faultsLeft>>

\* A timeout that comes before connects to routers that answer disturbs the dial.
ConnectTimeout(d) ==
    LET slow == \E c \in connects : c.for = d /\ c.router \in up IN
    /\ dial[d].pc = "wait"
    /\ IF dial[d].retry THEN Fails(d, dial[d].quiet /\ ~slow)
       ELSE dial' = [dial EXCEPT ![d].pc = "refresh", ![d].quiet = @ /\ ~slow]
    /\ \A r \in Routers : dial[d].held[r] = "none"
    /\ connects' = Orphaned(d)
    /\ UNCHANGED <<cache, mapped, svc, made, up, ctrl, faultsLeft>>

\* routerConn.Connect: the router must have the session.
Connect(d) ==
    /\ dial[d].pc = "connect"
    /\ IF dial[d].held[dial[d].to] \in {"open", "outside"} /\ dial[d].session.known
       THEN Succeeds(d) ELSE DialFails(d)
    /\ UNCHANGED <<cache, mapped, connects, svc, made, up, ctrl, faultsLeft>>


\* "if the session wasn't expired, no reason to try again"; otherwise a new
\* session is made and dialled.
LookAgain(d) ==
    LET s == dial[d].session IN
    /\ dial[d].pc = "refresh"
    /\ \/ /\ refreshSession(s)
          /\ Fails(d, dial[d].quiet)
       \/ /\ DetailAnswer(s) # "ok"
          /\ cache' = Without(cache, dial[d].svc)
          /\ dial' = [dial EXCEPT ![d].pc = "create", ![d].retry = TRUE]
    /\ UNCHANGED <<mapped, connects, svc, made, up, ctrl, faultsLeft>>

-----------------------------------------------------------------------------
(* connectEdgeRouter.                                                        *)

\* The result of connect c reaches whoever waits for it.
Reports(c, state) ==
    /\ connects' = connects \ {c}
    /\ dial' = IF c.for = "none" THEN dial ELSE [dial EXCEPT ![c.for].held[c.router] = state]

\* An open connection in the map is the result.
LookForConnection(c) ==
    /\ c.pc = "look"
    /\ IF mapped[c.router] = "open"
       THEN Reports(c, "open")
       ELSE /\ connects' = (connects \ {c}) \cup
                 {[c EXCEPT !.pc = IF mapped[c.router] = "closed" THEN "remove" ELSE "dial"]}
            /\ UNCHANGED dial
    /\ UNCHANGED <<cache, mapped, svc, made, up, ctrl, faultsLeft>>

\* Whoever was given the connection of router r that leaves the map.
Unmapped(r, state) ==
    [d \in Dialers |-> [dial[d] EXCEPT !.held[r] = IF @ = "open" THEN state ELSE @]]

\* A closed one is removed, by its key: meanwhile another may be there.
RemoveClosed(c) ==
    /\ c.pc = "remove"
    /\ mapped' = [mapped EXCEPT ![c.router] = "none"]
    /\ dial' = Unmapped(c.router, "outside")
    /\ connects' = (connects \ {c}) \cup {[c EXCEPT !.pc = "dial"]}
    /\ UNCHANGED <<cache, svc, made, up, ctrl, faultsLeft>>

\* The new connection goes into the map unless there is an open one, in which
\* case it is closed and the other used.
DialRouter(c) ==
    /\ c.pc = "dial"
    /\ IF c.router \in up
       THEN /\ mapped' = [mapped EXCEPT ![c.router] = "open"]
            /\ Reports(c, "open")
       ELSE connects' = connects \ {c} /\ UNCHANGED <<mapped, dial>>
    /\ UNCHANGED <<cache, svc, made, up, ctrl, faultsLeft>>

\* OnClose removes only the connection that was closed.
OnClose(r) ==
    /\ mapped[r] = "closed"
    /\ mapped' = [mapped EXCEPT ![r] = "none"]
    /\ UNCHANGED <<cache, connects, dial, svc, made, up, ctrl, faultsLeft>>

-----------------------------------------------------------------------------
(* The refresh loop, and what may go wrong.                                  *)

\* refreshSessions: a session that cannot be refreshed is removed by its id,
\* which is not its key, so that it stays.
RefreshSessions(i) ==
    LET s == cache[i] IN
    /\ s # NoSession /\ s # Refreshed(s)
    /\ refreshSession(s)
    /\ connects' = connects \cup {[router |-> r, pc |-> "look", for |-> "none"] : r \in up}
    /\ UNCHANGED <<mapped, dial, svc, made, up, ctrl, faultsLeft>>

\* A fault disturbs every dial that is under way.
Disturbs == [d \in Dialers |-> [dial[d] EXCEPT !.quiet = FALSE]]
Fault == faultsLeft > 0 /\ faultsLeft' = faultsLeft - 1
Closed(D, r) == [d \in Dialers |-> [D[d] EXCEPT !.held[r] = IF @ = "none" THEN @ ELSE "closed"]]

RouterFails(r) ==
    /\ Fault /\ r \in up /\ up' = up \ {r}
    /\ mapped' = [mapped EXCEPT ![r] = IF @ = "open" THEN "closed" ELSE @]
    /\ dial' = Closed(Disturbs, r)
    /\ UNCHANGED <<cache, connects, svc, made, ctrl>>

\* Nobody knows the sessions any more.
Forgotten(D) == [d \in Dialers |-> [D[d] EXCEPT !.session.known = FALSE]]
CacheForgotten == [i \in Ids |-> [cache[i] EXCEPT !.known = FALSE]]

SessionsRevoked ==
    /\ Fault /\ cache' = CacheForgotten /\ dial' = Forgotten(Disturbs)
    /\ UNCHANGED <<mapped, connects, svc, made, up, ctrl>>

ServiceRecreated ==
    /\ Fault /\ \E i \in {0, 1, 2} \ {made} : made' = i
    /\ cache' = CacheForgotten /\ dial' = Forgotten(Disturbs)
    /\ UNCHANGED <<mapped, connects, svc, up, ctrl>>

ControllerFails ==
    /\ Fault /\ ctrl = "answers" /\ ctrl' = "silent" /\ dial' = Disturbs
    /\ UNCHANGED <<cache, mapped, connects, svc, made, up>>

\* setUnauthenticated: authenticate has cleared the sessions; the connections are
\* closed and removed by key.
setUnauthenticated ==
    /\ Fault
    /\ cache' = [i \in Ids |-> NoSession]
    /\ mapped' = [r \in Routers |-> "none"]
    /\ dial' = [d \in Dialers |-> [Disturbs[d] EXCEPT !.held =
                   [r \in Routers |-> IF @[r] = "open" THEN "closed" ELSE @[r]]]]
    /\ UNCHANGED <<connects, svc, made, up, ctrl>>

Recovers ==
    /\ \/ up # Routers /\ up' = Routers /\ UNCHANGED ctrl
       \/ ctrl = "silent" /\ ctrl' = "answers" /\ UNCHANGED up
    /\ UNCHANGED <<cache, mapped, connects, dial, svc, made, faultsLeft>>

-----------------------------------------------------------------------------
Dials(d) ==
    \/ GetSession(d) \/ CreateSession(d) \/ CreateFails(d) \/ RefreshRouters(d)
    \/ ChooseRouter(d) \/ TakeConnection(d) \/ ConnectTimeout(d) \/ Connect(d) \/ LookAgain(d)

Connects(c) == LookForConnection(c) \/ RemoveClosed(c) \/ DialRouter(c)

DialNext ==
    \/ \E d \in Dialers : StartDial(d) \/ Dials(d)
    \/ \E c \in connects : Connects(c)
    \/ \E r \in Routers : OnClose(r) \/ RouterFails(r)
    \/ \E i \in Ids : RefreshSessions(i)
    \/ SessionsRevoked \/ ServiceRecreated \/ ControllerFails \/ setUnauthenticated \/ Recovers

DialSpec == DialInit /\ [][DialNext]_dialVars

-----------------------------------------------------------------------------
(* Properties.                                                               *)

=============================================================================
