----------------------- MODULE ListenerManagerProofs -----------------------
(***************************************************************************)
(* A router listed by a listenerManager has exactly one owner, for any     *)
(* number of routers, of faults and of connects under way.  OneOwner is    *)
(* inductive with the types it needs.  The operators on run's state that   *)
(* may replace the session or close the listener leave routerConnections   *)
(* alone and never open a closed listener again (Kept); while it is open   *)
(* a step that is not about a router's owner keeps all of them             *)
(* (OthersKeep), and the rest hand a router from one owner to the next.    *)
(***************************************************************************)
EXTENDS ListenerManager, FiniteSetTheorems, TLAPS

\* A record of run's fields.
IsMgr(m) == m = [pc |-> m.pc, session |-> m.session, conns |-> m.conns, connects |-> m.connects]

\* The state s comes from run's fields m and the flag closed, c, without a change
\* of routerConnections.
Kept(s, m, c) == IsMgr(s.mgr) /\ s.mgr.conns = m.conns /\ (s.closed = c \/ s.closed = TRUE)

LEMMA CreateKeeps ==
    ASSUME NEW m, NEW c, IsMgr(m)
    PROVE  /\ Kept(CreateSession([mgr |-> m, closed |-> c]), m, c)
           /\ Kept(CreateOrClose([mgr |-> m, closed |-> c]), m, c)
<1>1. Kept(CreateSession([mgr |-> m, closed |-> c]), m, c)
  <2>1. CASE ctrl = "answers"
    BY <2>1 DEF CreateSession, Kept, IsMgr
  <2>2. CASE ctrl # "answers"
    BY <2>2 DEF CreateSession, Kept, IsMgr
  <2>3. QED
    BY <2>1, <2>2
<1>2. Kept(Closes([mgr |-> m, closed |-> c]), m, c)
  BY DEF Closes, Kept, IsMgr
<1>3. QED
  BY <1>1, <1>2 DEF CreateOrClose

LEMMA RefreshKeeps ==
    ASSUME NEW m, NEW c, IsMgr(m), ctrl \in {"answers", "silent", "rejects", "denies"}
    PROVE  Kept(Refresh([mgr |-> m, closed |-> c]), m, c)
<1>1. Kept(Closes([mgr |-> m, closed |-> c]), m, c)
  BY DEF Closes, Kept, IsMgr
<1>2. Kept([[mgr |-> m, closed |-> c] EXCEPT !.mgr.session.routers = up], m, c)
  BY DEF Kept, IsMgr
<1>3. Kept([mgr |-> m, closed |-> c], m, c)
  BY DEF Kept, IsMgr
<1>4. CASE m.session = NoSession
  BY <1>4, CreateKeeps DEF Refresh
<1>5. CASE m.session # NoSession /\ ctrl = "silent"
  <2>1. ctrl # "answers" /\ ctrl # "denies" /\ ctrl # "rejects"
    BY <1>5
  <2>2. QED
    BY <1>5, <2>1, <1>3 DEF Refresh, EnsureAuthenticated
<1>6. CASE m.session # NoSession /\ ctrl = "rejects"
  BY <1>6, <1>3, <1>1 DEF Refresh, EnsureAuthenticated
<1>7. CASE m.session # NoSession /\ ctrl \in {"answers", "denies"}
  BY <1>7, <1>2, CreateKeeps DEF Refresh, EnsureAuthenticated
<1>8. QED
  BY <1>4, <1>5, <1>6, <1>7

-----------------------------------------------------------------------------
\* The elements of the channel of a listener's events and of the channel of connect results.
HostEvents == {"established", "startOver", "notRetriable"}
ConnectResults == [router : Routers, outcome : {"conn", "err"}]

Typed ==
    /\ IsMgr(mgr) /\ mgr.conns \subseteq Routers
    /\ creating \in [Routers -> {"none", "live", "dead"}]
    /\ connectChan \in Seq(ConnectResults)
    /\ events \in Seq(HostEvents)
    /\ ctrl \in {"answers", "silent", "rejects", "denies"}

IInv == Typed /\ OneOwner

LEMMA InitHolds == Init => IInv
<1>1. Cardinality({}) = 0
  BY FS_EmptySet
<1>2. QED
  BY <1>1, ManagerAssumption DEF Init, IInv, Typed, IsMgr, OneOwner, Owners

\* A step that leaves the routers' owners as they are while the listener is open.
LEMMA OthersKeep ==
    ASSUME OneOwner, mgr.pc # "panicked", mgr'.conns = mgr.conns, creating' = creating,
           closed' = closed \/ closed' = TRUE, ctxClosed' = ctxClosed \/ ctxClosed' = TRUE,
           ~closed' => listeners' = listeners /\ failing' = failing
    PROVE  OneOwner'
BY DEF OneOwner, Owners

\* makeMoreListeners only adds to the connects.
LEMMA MakeMoreKeeps ==
    ASSUME NEW s, IsMgr(s.mgr), MakeMoreListeners(s)
    PROVE  IsMgr(mgr') /\ mgr'.conns = s.mgr.conns
BY DEF MakeMoreListeners, IsMgr

\* Steps of run that are not about one router.
LEMMA RunKeeps ==
    ASSUME IInv, mgr.pc # "panicked",
           InitialSession \/ FirstListeners \/ RefreshTimer \/ Ticker \/ HandleHostEvent
           \/ ContextClosed \/ \E r \in Routers : handleListenSuccess(r)
    PROVE  IInv'
<1>. USE DEF IInv, Typed
<1>1. Kept(Current, mgr, closed) /\ Kept(Closes(Current), mgr, closed)
  BY DEF Current, Closes, Kept, IsMgr
<1>2. ASSUME NEW s, NEW pc, Kept(s, mgr, closed), ListenerAfter(s),
             mgr' = [s.mgr EXCEPT !.pc = pc]
      PROVE  /\ IsMgr(mgr') /\ mgr'.conns = mgr.conns
             /\ closed' = closed \/ closed' = TRUE
             /\ ~closed' => listeners' = listeners /\ failing' = failing
  BY <1>2 DEF Kept, IsMgr, ListenerAfter
<1>3. CASE InitialSession
  <2>1. Kept(CreateOrClose(Current), mgr, closed)
    BY CreateKeeps DEF Current
  <2>2. UNCHANGED <<creating, connectChan, events, ctxClosed, ctrl>>
    BY <1>3 DEF InitialSession, goVars, envVars
  <2>3. PICK s, pc : Kept(s, mgr, closed) /\ ListenerAfter(s) /\ mgr' = [s.mgr EXCEPT !.pc = pc]
    BY <1>3, <1>1, <2>1 DEF InitialSession
  <2>4. QED
    BY <1>2, <2>2, <2>3, OthersKeep
<1>4. CASE FirstListeners \/ Ticker
  <2>1. /\ MakeMoreListeners(Current)
        /\ UNCHANGED <<creating, connectChan, listeners, failing, events, closed, ctxClosed, ctrl>>
    BY <1>4 DEF FirstListeners, Ticker, envVars
  <2>2. IsMgr(mgr') /\ mgr'.conns = mgr.conns
    BY <2>1, <1>1, MakeMoreKeeps DEF Kept
  <2>3. QED
    BY <2>1, <2>2, OthersKeep
<1>5. CASE RefreshTimer
  <2>1. Kept(Refresh(Current), mgr, closed)
    BY RefreshKeeps DEF Current
  <2>2. UNCHANGED <<creating, connectChan, events, ctxClosed, ctrl>>
    BY <1>5 DEF RefreshTimer, goVars, envVars
  <2>3. ListenerAfter(Refresh(Current)) /\ mgr' = [Refresh(Current).mgr EXCEPT !.pc = NextPc(Refresh(Current))]
    BY <1>5 DEF RefreshTimer
  <2>4. QED
    BY <1>2, <2>1, <2>2, <2>3, OthersKeep
<1>6. CASE HandleHostEvent
  <2>1. /\ UNCHANGED <<creating, connectChan, ctxClosed, ctrl>>
        /\ events # <<>> /\ events' = Tail(events)
    BY <1>6 DEF HandleHostEvent, goVars, envVars
  <2>2. Head(events) \in {"established", "startOver", "notRetriable"}
    BY <2>1 DEF HostEvents
  <2>3. Kept(Refresh([mgr |-> [mgr EXCEPT !.session = NoSession], closed |-> closed]), mgr, closed)
    <3>. DEFINE m == [mgr EXCEPT !.session = NoSession]
    <3>1. IsMgr(m) /\ m.conns = mgr.conns
      BY DEF IsMgr
    <3>. HIDE DEF m
    <3>2. Kept(Refresh([mgr |-> m, closed |-> closed]), m, closed)
      BY <3>1, RefreshKeeps
    <3>3. QED
      BY <3>1, <3>2 DEF Kept, m
  <2>4. PICK s, pc : Kept(s, mgr, closed) /\ ListenerAfter(s) /\ mgr' = [s.mgr EXCEPT !.pc = pc]
    BY <1>6, <1>1, <2>2, <2>3 DEF HandleHostEvent
  <2>5. events' \in Seq(HostEvents)
    BY <2>1
  <2>6. QED
    BY <1>2, <2>1, <2>4, <2>5, OthersKeep
<1>7. CASE ContextClosed
  <2>1. UNCHANGED <<creating, connectChan, events, ctxClosed, ctrl>>
    BY <1>7 DEF ContextClosed, goVars, envVars
  <2>2. IsMgr(mgr') /\ mgr'.conns = mgr.conns /\ closed' = TRUE
    BY <1>7 DEF ContextClosed, ListenerAfter, Closes, Current, IsMgr
  <2>3. QED
    BY <2>1, <2>2, OthersKeep
<1>8. ASSUME NEW r \in Routers, handleListenSuccess(r) PROVE IInv'
  <2>1. UNCHANGED <<creating, connectChan, listeners, failing, closed, ctxClosed, ctrl>>
    BY <1>8 DEF handleListenSuccess, envVars
  <2>2. IsMgr(mgr') /\ mgr'.conns = mgr.conns
    BY <1>8 DEF handleListenSuccess, IsMgr
  <2>3. events' \in Seq(HostEvents)
    BY <1>8 DEF handleListenSuccess, HostEvents
  <2>4. QED
    BY <2>1, <2>2, <2>3, OthersKeep
<1>9. QED
  BY <1>3, <1>4, <1>5, <1>6, <1>7, <1>8

\* Subsets of the routers are finite.
LEMMA ConnsFinite ==
    ASSUME Typed
    PROVE  IsFiniteSet(mgr.conns) /\ Cardinality(mgr.conns) \in Nat
BY ManagerAssumption, FS_Subset, FS_CardinalityType DEF Typed

LEMMA HeadAndTail ==
    ASSUME NEW S, NEW q \in Seq(S), q # <<>>
    PROVE  Head(q) \in S /\ Tail(q) \in Seq(S)
OBVIOUS

LEMMA Appended ==
    ASSUME NEW S, NEW q \in Seq(S), NEW e \in S
    PROVE  Append(q, e) \in Seq(S)
OBVIOUS

\* A router that connected and is not listed gets a createListener for its owner.
LEMMA ConnectResultKeeps ==
    ASSUME IInv, mgr.pc # "panicked", handleRouterConnectResult
    PROVE  IInv'
<1>. USE DEF IInv
<1>. DEFINE r == Head(connectChan).router
<1>1. /\ r \in Routers /\ connectChan' \in Seq(ConnectResults)
  <2>1. connectChan # <<>> /\ connectChan' = Tail(connectChan)
    BY DEF handleRouterConnectResult
  <2>2. QED
    BY <2>1, HeadAndTail DEF Typed, ConnectResults
<1>2. UNCHANGED <<listeners, failing, events, closed, ctxClosed, ctrl>>
  BY DEF handleRouterConnectResult, envVars
<1>3. CASE UNCHANGED creating /\ mgr'.conns = mgr.conns /\ IsMgr(mgr')
  BY <1>1, <1>2, <1>3, OthersKeep DEF Typed
<1>4. CASE /\ creating' \in {[creating EXCEPT ![r] = "live"], [creating EXCEPT ![r] = "dead"]}
           /\ Cardinality(mgr.conns) < MaxTerminators /\ r \notin mgr.conns
           /\ mgr'.conns = mgr.conns \cup {r} /\ IsMgr(mgr')
  <2>1. Typed'
    BY <1>1, <1>2, <1>4 DEF Typed
  <2>2. Cardinality(mgr'.conns) = Cardinality(mgr.conns) + 1
    BY <1>4, ConnsFinite, FS_AddElement
  <2>3. Cardinality(mgr'.conns) <= MaxTerminators
    BY <1>4, <2>2, ConnsFinite, ManagerAssumption
  <2>4. ASSUME ~closed, ~ctxClosed, NEW q \in Routers
        PROVE  Owners(q)' = IF q \in mgr'.conns THEN 1 ELSE 0
    BY <1>1, <1>2, <1>4, <2>4 DEF OneOwner, Owners, Typed
  <2>5. QED
    BY <1>2, <2>1, <2>3, <2>4 DEF OneOwner
<1>5. QED
  BY <1>3, <1>4 DEF handleRouterConnectResult, Typed, IsMgr

\* A router whose listener failed is forgotten.
LEMMA ListenFailedKeeps ==
    ASSUME IInv, mgr.pc # "panicked", NEW r \in Routers, NEW refreshed,
           handleListenFailed(r, refreshed)
    PROVE  IInv'
<1>. USE DEF IInv
<1>. DEFINE m == [mgr EXCEPT !.conns = @ \ {r}]
            forgot == [mgr |-> m, closed |-> closed]
            s == IF refreshed THEN Refresh(forgot) ELSE forgot
<1>1. IsMgr(m) /\ m.conns = mgr.conns \ {r}
  <2>1. IsMgr(mgr)
    BY DEF Typed
  <2>2. QED
    BY <2>1 DEF IsMgr
<1>2. Kept(s, m, closed)
  <2>. HIDE DEF m
  <2>1. Kept(forgot, m, closed)
    BY <1>1 DEF Kept
  <2>2. Kept(Refresh(forgot), m, closed)
    BY <1>1, RefreshKeeps DEF Typed
  <2>3. QED
    BY <2>1, <2>2
<1>3. /\ r \in failing /\ MakeMoreListeners(s) /\ closed' = s.closed
      /\ failing' = (failing \ {r}) \cup (IF s.closed THEN listeners ELSE {})
      /\ listeners' = IF s.closed THEN {} ELSE listeners
      /\ UNCHANGED <<creating, connectChan, events, ctxClosed, ctrl>>
  BY DEF handleListenFailed, envVars
<1>. HIDE DEF s
<1>4. /\ IsMgr(mgr') /\ mgr'.conns = mgr.conns \ {r}
      /\ closed' = closed \/ closed' = TRUE
      /\ ~closed' => listeners' = listeners /\ failing' = failing \ {r}
  BY <1>1, <1>2, <1>3, MakeMoreKeeps DEF Kept
<1>5. Typed'
  BY <1>3, <1>4 DEF Typed
<1>6. Cardinality(mgr'.conns) <= Cardinality(mgr.conns) /\ Cardinality(mgr'.conns) \in Nat
  BY <1>4, ConnsFinite, FS_Subset, FS_CardinalityType
<1>7. ASSUME ~closed', ~ctxClosed'
      PROVE  /\ \A q \in Routers : Owners(q)' = IF q \in mgr'.conns THEN 1 ELSE 0
             /\ Cardinality(mgr'.conns) <= MaxTerminators
  <2>1. ~closed /\ ~ctxClosed
    BY <1>3, <1>4, <1>7
  <2>2. Cardinality(mgr'.conns) <= MaxTerminators
    BY <1>6, <2>1, ConnsFinite, ManagerAssumption DEF OneOwner
  <2>3. ASSUME NEW q \in Routers PROVE Owners(q)' = IF q \in mgr'.conns THEN 1 ELSE 0
    BY <1>3, <1>4, <1>7, <2>1 DEF OneOwner, Owners
  <2>4. QED
    BY <2>2, <2>3
<1>8. QED
  BY <1>5, <1>7 DEF OneOwner

\* createListener, a hosting connection and a ListenFailed event take over from
\* each other.
LEMMA OwnerKeeps ==
    ASSUME IInv, NEW r \in Routers,
           \/ ListenSucceeds(r) \/ ListenFails(r) \/ StopsWaiting(r) \/ RouterFails(r)
           \/ \E h \in {"none", "startOver", "notRetriable"} : HostCloses(r, h)
    PROVE  IInv'
<1>. USE DEF IInv
<1>1. UNCHANGED <<mgr, connectChan, closed, ctxClosed, ctrl>>
  BY DEF ListenSucceeds, ListenFails, StopsWaiting, RouterFails, HostCloses, envVars
<1>2. events' \in Seq(HostEvents)
  <2>1. events' = events \/ \E h \in HostEvents : events' = Append(events, h)
    BY DEF HostEvents, ListenSucceeds, ListenFails, StopsWaiting, RouterFails, HostCloses
  <2>2. QED
    BY <2>1, Appended DEF Typed
<1>3. creating' = creating \/ creating' = [creating EXCEPT ![r] = "none"]
  BY DEF ListenSucceeds, ListenFails, StopsWaiting, RouterFails, HostCloses, goVars
<1>4. Typed'
  BY <1>1, <1>2, <1>3 DEF Typed
<1>5. CASE closed \/ ctxClosed \/ mgr.pc = "panicked"
  BY <1>1, <1>4, <1>5 DEF OneOwner
<1>6. CASE ~closed /\ ~ctxClosed /\ mgr.pc # "panicked"
  <2>1. ASSUME NEW q \in Routers PROVE Owners(q)' = Owners(q)
    <3>1. Owners(r) \in {0, 1}
      BY <1>6 DEF OneOwner
    <3>2. CASE ListenSucceeds(r)
      BY <3>1, <3>2, <1>6 DEF ListenSucceeds, Owners, Typed
    <3>3. CASE ListenFails(r)
      BY <3>1, <3>3 DEF ListenFails, Owners, Typed
    <3>4. CASE RouterFails(r)
      BY <3>1, <3>4 DEF RouterFails, Owners, goVars
    <3>5. ASSUME NEW h, HostCloses(r, h) PROVE Owners(q)' = Owners(q)
      BY <3>1, <3>5 DEF HostCloses, Owners, goVars
    <3>6. QED
      BY <1>6, <3>2, <3>3, <3>4, <3>5 DEF StopsWaiting
  <2>2. QED
    BY <1>1, <1>4, <1>6, <2>1 DEF OneOwner
<1>7. QED
  BY <1>5, <1>6

\* The other goroutines and the rest of the environment.
LEMMA AroundKeeps ==
    ASSUME IInv, mgr.pc # "panicked",
           \/ AppCloses \/ ContextCloses \/ ControllerFails \/ SessionsRevoked \/ Recovers
           \/ \E r \in Routers : ConnectExpires(r) \/ handleConnectEdgeRouter(r)
    PROVE  IInv'
<1>. USE DEF IInv
<1>1. CASE AppCloses
  <2>1. UNCHANGED <<mgr, creating, connectChan, events, ctxClosed, ctrl>> /\ closed' = TRUE
    BY <1>1 DEF AppCloses, ListenerAfter, Closes, Current, goVars
  <2>2. QED
    BY <2>1, OthersKeep DEF Typed
<1>2. CASE ContextCloses \/ ControllerFails \/ Recovers
  <2>1. /\ UNCHANGED <<mgr, creating, connectChan, listeners, failing, events, closed>>
        /\ ctrl' \in {"answers", "silent", "rejects", "denies"}
        /\ ctxClosed' = ctxClosed \/ ctxClosed' = TRUE
    BY <1>2 DEF ContextCloses, ControllerFails, Recovers, goVars, Typed
  <2>2. QED
    BY <2>1, OthersKeep DEF Typed
<1>3. CASE SessionsRevoked
  <2>1. /\ UNCHANGED <<connectChan, listeners, failing, events, closed, ctxClosed, ctrl>>
        /\ creating' = [r \in Routers |-> IF creating[r] = "live" THEN "dead" ELSE creating[r]]
    BY <1>3 DEF SessionsRevoked
  <2>2. IsMgr(mgr') /\ mgr'.conns = mgr.conns /\ mgr'.pc = mgr.pc
    BY <1>3 DEF SessionsRevoked, Typed, IsMgr
  <2>3. \A q \in Routers : Owners(q)' = Owners(q)
    BY <2>1 DEF Owners, Typed
  <2>4. Typed'
    BY <2>1, <2>2 DEF Typed
  <2>5. QED
    BY <2>1, <2>2, <2>3, <2>4 DEF OneOwner
<1>4. ASSUME NEW r \in Routers, ConnectExpires(r) PROVE IInv'
  <2>1. UNCHANGED <<creating, connectChan, listeners, failing, events, closed, ctxClosed, ctrl>>
    BY <1>4 DEF ConnectExpires, goVars, envVars
  <2>2. IsMgr(mgr') /\ mgr'.conns = mgr.conns
    BY <1>4 DEF ConnectExpires, Typed, IsMgr
  <2>3. QED
    BY <2>1, <2>2, OthersKeep DEF Typed
<1>5. ASSUME NEW r \in Routers, handleConnectEdgeRouter(r) PROVE IInv'
  <2>1. UNCHANGED <<mgr, creating, listeners, failing, events, closed, ctxClosed, ctrl>>
    BY <1>5 DEF handleConnectEdgeRouter, envVars
  <2>2. connectChan' \in Seq(ConnectResults)
    <3>1. connectChan' = connectChan \/ \E o \in ConnectResults : connectChan' = Append(connectChan, o)
      BY <1>5 DEF handleConnectEdgeRouter, ConnectResults
    <3>2. QED
      BY <3>1, Appended DEF Typed
  <2>3. QED
    BY <2>1, <2>2, OthersKeep DEF Typed
<1>6. QED
  BY <1>1, <1>2, <1>3, <1>4, <1>5

LEMMA NextKeeps == IInv /\ [Next]_vars => IInv'
<1>. SUFFICES ASSUME IInv, [Next]_vars PROVE IInv'
  OBVIOUS
<1>1. CASE UNCHANGED vars
  BY <1>1 DEF vars, goVars, envVars, IInv, Typed, OneOwner, Owners
<1>2. CASE Next
  BY <1>2, RunKeeps, ConnectResultKeeps, ListenFailedKeeps, OwnerKeeps, AroundKeeps
     DEF Next, Run, Environment
<1>3. QED
  BY <1>1, <1>2

\* "At most one terminator will be established per available edge router", and
\* none is listed without someone who binds it or reports that it is gone, for
\* any number of routers and whatever fails (handleRouterConnectResult,
\* createListener, routerConnectionListenFailedEvent).
THEOREM EachHasOneOwner == Spec => []OneOwner
<1>1. IInv => OneOwner
  BY DEF IInv
<1>2. QED
  BY <1>1, InitHolds, NextKeeps, PTL DEF Spec
=============================================================================
