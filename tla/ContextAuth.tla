---------------------------- MODULE ContextAuth ----------------------------
(***************************************************************************)
(* How a ContextImpl (zt/zt.go) keeps an API session: goroutines of the    *)
(* application that authenticate, re-authenticate or use the session, the  *)
(* refresh loop, and the answer to a TOTP query, over a pool of            *)
(* controllers that may be unreachable, hang, forget sessions or reject    *)
(* the identity.  One step per access to the shared ApiSession pointer and *)
(* per request.                                                            *)
(***************************************************************************)
EXTENDS ControllerApi

CONSTANTS Apps,         \* goroutines of the application
          Controllers,  \* the controllers of the network
          First,        \* the one that is configured
          Flows,        \* behaviours of controllers in an OIDC login
          GoodFlows,    \* the ones of a controller that accepts the identity
          MaxFaults     \* bound: faults of the controllers

ASSUME AuthAssumption ==
    /\ First \in Controllers /\ GoodFlows \subseteq Flows /\ GoodFlows # {}
    /\ \A f \in GoodFlows : OidcAuthenticate(f) = "ok"
    /\ MaxFaults \in Nat

VARIABLES
    kind,        \* the session type: "legacy" or "oidc"
    session,     \* CtrlClt.ApiSession
    recent,      \* lastSuccessfulApiSessionRefresh is less than 5 s ago
    lock,        \* the goroutine that holds authAttemptLock
    go,          \* go[g]: what goroutine g is doing
    refreshing,  \* firstAuthOnce: runRefreshes has been started
    pool, active, \* the ClientTransportPoolRandom
    live,        \* API sessions the controllers know
    pending,     \* API sessions with an open TOTP query
    reach,       \* reach[c]: "up", "down" (connection refused) or "hangs"
    accepts,     \* the identity's credentials are accepted
    faults

clientVars == <<session, recent, lock, go, refreshing, pool, active>>
envVars == <<kind, live, pending, reach, accepts, faults>>
vars == <<clientVars, envVars>>

Refresher == "refresher"
Mfa == "mfa"
Goroutines == Apps \cup {Refresher, Mfa}

None == [id |-> 0, partial |-> FALSE, sound |-> TRUE]
Idle == [pc |-> "idle", job |-> "none", read |-> None]

Init ==
    /\ kind \in {"legacy", "oidc"}
    /\ session = None /\ recent = FALSE /\ lock = "none"
    /\ go = [g \in Goroutines |-> Idle]
    /\ refreshing = FALSE /\ pool = {First} /\ active = "none"
    /\ live = {} /\ pending = {}
    /\ reach = [c \in Controllers |-> "up"] /\ accepts = TRUE /\ faults = 0

-----------------------------------------------------------------------------
(* Requests.                                                                 *)

\* What each controller answers to a request that a reachable one answers with a.
Answers(a) == [c \in Controllers |-> CASE reach[c] = "up" -> a
                                       [] reach[c] = "down" -> "network"
                                       [] reach[c] = "hangs" -> "timeout"]

\* A request through the pool; o is its outcome.
Request(a, o) ==
    /\ o \in TryTransportForF(pool, active, Answers(a))
    /\ active' = o.active

\* A request with session s: the controllers answer 401 to one they do not know.
Known(s) == IF s.id \in live THEN "ok" ELSE "unauthorized"

To(g, pc) == go' = [go EXCEPT ![g].pc = pc]
Holds(g) == lock = g
\* g returns from Authenticate, authenticate or authenticateMfa.
Returns(g) == /\ go' = [go EXCEPT ![g] = IF @.job = "use" THEN [Idle EXCEPT !.job = "use", !.pc = "use"]
                                   ELSE Idle]
              /\ lock' = IF Holds(g) THEN "none" ELSE lock

-----------------------------------------------------------------------------
(* What the goroutines set out to do.                                        *)

\* An application authenticates, or makes sure there is a session and uses it.
StartAuthenticate(g) ==
    /\ g \in Apps /\ go[g] = Idle
    /\ \E job \in {"auth", "use"} :
         go' = [go EXCEPT ![g] = [Idle EXCEPT !.job = job,
                   !.pc = IF job = "use" /\ session # None THEN "use" ELSE "lock"]]
    /\ UNCHANGED <<session, recent, lock, refreshing, pool, active, envVars>>

\* Reauthenticate does not take authAttemptLock; it and setUnauthenticated drop
\* the session.
Reauthenticate(g) ==
    /\ g \in Apps /\ go[g] = Idle
    /\ session' = None
    /\ go' = [go EXCEPT ![g] = [Idle EXCEPT !.job = "reauth", !.pc = "login"]]
    /\ UNCHANGED <<recent, lock, refreshing, pool, active, envVars>>

\* The refresh timer of runRefreshes.
RefreshTick ==
    LET g == Refresher IN
    /\ refreshing /\ go[g] = Idle
    /\ go' = [go EXCEPT ![g] = IF session = None
                               THEN [Idle EXCEPT !.job = "auth", !.pc = "lock"]
                               ELSE [pc |-> "sent", job |-> "refresh", read |-> session]]
    /\ UNCHANGED <<session, recent, lock, refreshing, pool, active, envVars>>

\* Mutant: an unauthorized answer is like any other error.
ServiceTickGivesUp ==
    LET g == Refresher IN
    /\ refreshing /\ go[g] = Idle
    /\ \/ /\ session = None
          /\ go' = [go EXCEPT ![g] = [Idle EXCEPT !.job = "auth", !.pc = "lock"]]
          /\ UNCHANGED active
       \/ /\ session # None
          /\ \E o \in TryTransportForF(pool, active, Answers(Known(session))) :
               Request(Known(session), o) /\ UNCHANGED go
    /\ UNCHANGED <<session, recent, lock, refreshing, pool, envVars>>

\* The service refresh of runRefreshes authenticates when there is no session
\* or the controller does not know it.
ServiceTick ==
    LET g == Refresher IN
    /\ refreshing /\ go[g] = Idle
    /\ \/ /\ session = None
          /\ go' = [go EXCEPT ![g] = [Idle EXCEPT !.job = "auth", !.pc = "lock"]]
          /\ UNCHANGED active
       \/ /\ session # None
          /\ \E o \in TryTransportForF(pool, active, Answers(Known(session))) :
               /\ Request(Known(session), o)
               /\ go' = IF o.answer = "unauthorized"
                        THEN [go EXCEPT ![g] = [Idle EXCEPT !.job = "auth", !.pc = "lock"]]
                        ELSE go
    /\ UNCHANGED <<session, recent, lock, refreshing, pool, envVars>>

\* The application answers the TOTP query of a partial session: authenticateMfa.
AnswerTotp ==
    /\ go[Mfa] = Idle /\ session # None /\ session.partial
    /\ \E o \in TryTransportForF(pool, active, Answers(Known(session))) :
         /\ Request(Known(session), o)
         /\ IF o.answer = "ok"
            THEN /\ pending' = pending \ {session.id}
                 /\ go' = [go EXCEPT ![Mfa] = [pc |-> "sent", job |-> "mfa", read |-> session]]
            ELSE UNCHANGED <<pending, go>>
    /\ UNCHANGED <<kind, session, recent, lock, refreshing, pool, live, reach, accepts,
                   faults>>

-----------------------------------------------------------------------------
(* Authenticate.                                                             *)

\* With the lock, a session refreshed in the last 5 s is good and an older one
\* is refreshed.
Lock(g) ==
    /\ go[g].pc = "lock" /\ lock = "none"
    /\ \/ /\ session # None /\ recent
          /\ Returns(g)
       \/ /\ session = None \/ ~recent
          /\ lock' = g
          /\ To(g, IF session = None THEN "clear" ELSE "read")
    /\ UNCHANGED <<session, recent, refreshing, pool, active, envVars>>

\* CtrlClient.Refresh reads the pointer again. Without a session it fails, which
\* RefreshApiSessionWithBackoff takes for an error to try again after.
RefreshReads(g) ==
    /\ go[g].pc = "read" /\ session # None
    /\ go' = [go EXCEPT ![g].pc = "sent", ![g].read = session]
    /\ UNCHANGED <<session, recent, lock, refreshing, pool, active, envVars>>

\* The backoff ends after 24 hours.
BackoffEnds(g) ==
    /\ go[g].pc = "read" /\ go[g].job \in {"auth", "use"}
    /\ To(g, "clear")
    /\ UNCHANGED <<session, recent, lock, refreshing, pool, active, envVars>>

\* The controller's answer to a refresh; an ok is stored, whatever the pointer
\* holds by then. An unknown session is authenticated anew by Authenticate and
\* left to the service refresh by runRefreshes.
RefreshAnswered(g) ==
    LET s == [go[g].read EXCEPT !.partial = @ /\ go[g].read.id \in pending] IN
    /\ go[g].pc = "sent"
    /\ \E o \in TryTransportForF(pool, active, Answers(Known(s))) :
         /\ Request(Known(s), o)
         /\ \/ /\ o.answer = "ok"
               /\ session' = s
               /\ recent' = (recent \/ go[g].job \in {"auth", "use"})
               /\ IF go[g].job = "mfa" /\ ~s.partial
                  THEN go' = [go EXCEPT ![g].read = None, ![g].pc = "full"] /\ UNCHANGED lock
                  ELSE Returns(g)
            \/ /\ o.answer # "ok"
               /\ IF go[g].job \in {"auth", "use"}
                  THEN go' = [go EXCEPT ![g].read = None,
                                 ![g].pc = IF o.answer = "unauthorized" THEN "clear" ELSE "read"]
                  ELSE go' = [go EXCEPT ![g] = Idle]
               /\ UNCHANGED <<session, recent, lock>>
    /\ UNCHANGED <<refreshing, pool, envVars>>

\* setUnauthenticated.
setUnauthenticated(g) ==
    /\ go[g].pc = "clear"
    /\ session' = None
    /\ To(g, "login")
    /\ UNCHANGED <<recent, lock, refreshing, pool, active, envVars>>

\* Mutant: the lock is kept when the login fails.
LoginFailsLocked(g) ==
    /\ To(g, "gone") /\ session' = None
    /\ UNCHANGED <<lock, pool, live, pending>>

\* The login failed: authenticate returns its error.
LoginFails(g) ==
    /\ Returns(g) /\ session' = None
    /\ UNCHANGED <<pool, live, pending>>

\* A login in which the redirect carried our state, the tokens our nonce, and a
\* TOTP code was verified if one was asked for.
Sound(f) == f.state = "ours" /\ f.nonce = "ours" /\ (f.login = 302 \/ f.verify = 302)

\* A new session; ids that no goroutine can use any more are used again.
Referenced == {session.id} \cup {go[g].read.id : g \in Goroutines}
NewId == CHOOSE i \in 1..(Cardinality(Goroutines) + 2) : /\ i \notin Referenced
                                 /\ \A j \in 1..(i - 1) : j \in Referenced

\* CtrlClient.Authenticate: the session is stored, peers join the pool, and a
\* credential without a certificate gets one for the session, which may fail.
\* authenticate ends early with a TOTP query or that failure.
LoginSucceeds(g, f) ==
    /\ live' = (live \cap Referenced) \cup {NewId}
    /\ \E query \in BOOLEAN, certificate \in BOOLEAN :
         /\ query => kind = "legacy"
         /\ pending' = (pending \cap Referenced) \cup (IF query THEN {NewId} ELSE {})
         /\ session' = [id |-> NewId, partial |-> query, sound |-> kind = "legacy" \/ Sound(f)]
         /\ IF query \/ ~certificate THEN Returns(g) ELSE To(g, "full") /\ UNCHANGED lock
    /\ pool' = ProcessControllers(pool, Controllers)

LoginAnswered(g) ==
    /\ go[g].pc = "login"
    /\ \E f \in (IF accepts THEN GoodFlows ELSE Flows) :
         LET a == IF kind = "oidc" THEN OidcAuthenticate(f)
                  ELSE IF accepts THEN "ok" ELSE "unauthorized" IN
         \E o \in TryTransportForF(pool, active, Answers(a)) :
             /\ Request(a, o)
             /\ \/ o.answer = "ok" /\ LoginSucceeds(g, f)
                \/ o.answer # "ok" /\ LoginFails(g)
    /\ UNCHANGED <<kind, recent, refreshing, reach, accepts, faults>>

\* onFullAuth: the first one starts runRefreshes; then the services are loaded.
onFullAuth(g) ==
    /\ go[g].pc = "full"
    /\ refreshing' = TRUE
    /\ \E o \in TryTransportForF(pool, active, Answers(Known(session))) : Request(Known(session), o)
    /\ Returns(g)
    /\ UNCHANGED <<session, recent, pool, envVars>>

\* A dial uses the session it made sure of; without one the call panics.
UseSession(g) ==
    /\ go[g].pc = "use"
    /\ IF session = None
       THEN To(g, "panicked")
       ELSE go' = [go EXCEPT ![g] = Idle]
    /\ UNCHANGED <<session, recent, lock, refreshing, pool, active, envVars>>

-----------------------------------------------------------------------------
(* Time and the controllers.                                                 *)

RefreshAges ==
    /\ recent /\ recent' = FALSE
    /\ UNCHANGED <<session, lock, go, refreshing, pool, active, envVars>>

Fault == faults < MaxFaults /\ faults' = faults + 1

ControllerFails(c) ==
    /\ Fault /\ reach[c] = "up"
    /\ \E r \in {"down", "hangs"} : reach' = [reach EXCEPT ![c] = r]
    /\ UNCHANGED <<clientVars, kind, live, pending, accepts>>

SessionsForgotten ==
    /\ Fault /\ live # {} /\ live' = {}
    /\ UNCHANGED <<clientVars, kind, pending, reach, accepts>>

IdentityRejected ==
    /\ Fault /\ accepts /\ accepts' = FALSE
    /\ UNCHANGED <<clientVars, kind, live, pending, reach>>

Recovers ==
    /\ \/ ~accepts /\ accepts' = TRUE /\ UNCHANGED reach
       \/ /\ \E c \in Controllers : reach[c] # "up"
          /\ reach' = [c \in Controllers |-> "up"]
          /\ UNCHANGED accepts
    /\ UNCHANGED <<clientVars, kind, live, pending, faults>>

-----------------------------------------------------------------------------
Works(g) ==
    \/ RefreshReads(g) \/ BackoffEnds(g) \/ RefreshAnswered(g) \/ setUnauthenticated(g)
    \/ LoginAnswered(g) \/ onFullAuth(g) \/ UseSession(g)

NoPanic == \A g \in Apps : go[g].pc # "panicked"

Next ==
    /\ NoPanic
    /\ \/ \E g \in Goroutines : Lock(g) \/ Works(g)
       \/ \E g \in Apps : StartAuthenticate(g) \/ Reauthenticate(g)
       \/ RefreshTick \/ ServiceTick \/ AnswerTotp \/ RefreshAges
       \/ \E c \in Controllers : ControllerFails(c)
       \/ SessionsForgotten \/ IdentityRejected \/ Recovers

Spec == Init /\ [][Next]_vars

(***************************************************************************)
(* Goroutines run, requests end, the service timer fires, and whoever      *)
(* waits for a mutex that is free again and again gets it.  The            *)
(* application need not do anything, and controllers need not recover.     *)
(***************************************************************************)
Fairness ==
    /\ \A g \in Goroutines : WF_vars(NoPanic /\ Works(g)) /\ SF_vars(NoPanic /\ Lock(g))
    /\ WF_vars(NoPanic /\ RefreshAges) /\ SF_vars(NoPanic /\ ServiceTick)

FairSpec == Spec /\ Fairness

-----------------------------------------------------------------------------
(* Properties.                                                               *)

\* An OIDC session comes from a login in which the redirect carried our state,
\* the tokens our nonce, and the TOTP code was verified when one was asked for,
\* whichever controllers took part and failed before (clients_shared.go).
SoundLogin == session.sound

Stable ==
    /\ accepts
    /\ \A c \in pool : reach[c] # "hangs"
    /\ \E c \in pool : reach[c] = "up"

\* Once it has been ready, a context whose session is lost or unknown to the
\* controllers gets one they know again and again, when from some time on they
\* accept the identity, one of the pool can be reached and none of them hangs:
\* a request to a controller that hangs is not sent to another.
SessionRecovers ==
    <>[](refreshing /\ Stable) => []<>(session.id \in live \/ ~NoPanic)

\* Every Authenticate returns and gives up its lock, when from some time on one
\* controller can be reached and none hangs. That a goroutine refreshing a
\* session which Reauthenticate has taken away returns at all is due to the
\* 24 hour limit of its backoff, for which all others wait.
AuthenticateReturns ==
    \A g \in Apps : <>[]Stable => []<>(go[g].pc \in {"idle", "use"} \/ ~NoPanic)
=============================================================================
