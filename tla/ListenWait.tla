----------------------------- MODULE ListenWait -----------------------------
(***************************************************************************)
(* ListenOptions.WaitForNEstablishedListeners (zt/zt.go): Listen returns   *)
(* when N hosting connections are established.  A router confirms a bind   *)
(* twice: its reply lets createListener add the hosting connection to the  *)
(* multiListener, its bind success, handled by the channel's receiver,     *)
(* marks it as established.  A router that does not send the second is     *)
(* taken to be established at once.                                        *)
(***************************************************************************)
EXTENDS Integers, FiniteSets

CONSTANTS Routers,        \* the edge routers of the session
          N,              \* WaitForNEstablishedListeners
          EventChanSize,  \* capacity of the options' event channel
          MaxLosses       \* bound: hosting connections that are lost

VARIABLES
    reachable,    \* routers that accept the bind
    reporting,    \* routers that send a bind success
    host,         \* host[r]: "binding", "replied", "added" to the
                  \* multiListener, "reported" to run, or "closed"
    established,  \* routers whose hosting connection is marked
    events,       \* established events in the event channel
    notifying,    \* goroutines that run waitForNHelper.Notify
    notified,     \* helper.notify is closed
    listen,       \* the call of Listen: "waits", "returned" or "gaveUp"
    had,          \* established listeners when it gave up
    losses

waitVars == <<reachable, reporting, host, established, events, notifying, notified, listen,
              had, losses>>

\* newListenerManager: the observer is there before run starts.
WaitInit ==
    /\ reachable \in SUBSET Routers /\ reporting \in SUBSET Routers
    /\ host = [r \in Routers |-> "binding"] /\ established = {}
    /\ events = 0 /\ notifying = 0 /\ notified = FALSE
    /\ listen = "waits" /\ had = 0 /\ losses = 0

GetEstablishedCount ==
    Cardinality({r \in established : host[r] \in {"added", "reported"}})

\* An established event is dropped when the channel is full.
Offers == IF events < EventChanSize THEN events + 1 ELSE events

Replied(r) ==
    /\ r \in reachable /\ host[r] = "binding"
    /\ host' = [host EXCEPT ![r] = "replied"]
    /\ UNCHANGED <<reachable, reporting, established, events, notifying, notified, listen,
                   had, losses>>

\* createListener, up to the event it sends to run.
AddListener(r) ==
    /\ host[r] = "replied"
    /\ host' = [host EXCEPT ![r] = "added"]
    /\ established' = IF r \in reporting THEN established ELSE established \cup {r}
    /\ UNCHANGED <<reachable, reporting, events, notifying, notified, listen, had, losses>>

\* run has taken the event; an old router's bind is announced here.
ListenSuccess(r) ==
    /\ host[r] = "added"
    /\ host' = [host EXCEPT ![r] = "reported"]
    /\ events' = IF r \in reporting THEN events ELSE Offers
    /\ UNCHANGED <<reachable, reporting, established, notifying, notified, listen, had, losses>>

\* The receiver of the channel handles the router's bind success.
BindSuccess(r) ==
    /\ r \in reporting \ established /\ host[r] \in {"replied", "added", "reported"}
    /\ established' = established \cup {r}
    /\ events' = Offers
    /\ UNCHANGED <<reachable, reporting, host, notifying, notified, listen, had, losses>>

\* run: an established event is passed to the observers, each in a goroutine.
NotifyObservers ==
    /\ events > 0 /\ events' = events - 1
    /\ notifying' = IF listen = "waits" THEN notifying + 1 ELSE notifying
    /\ UNCHANGED <<reachable, reporting, host, established, notified, listen, had, losses>>

\* waitForNHelper.Notify.
Notify ==
    /\ notifying > 0 /\ notifying' = notifying - 1
    /\ notified' = (notified \/ GetEstablishedCount >= N)
    /\ UNCHANGED <<reachable, reporting, host, established, events, listen, had, losses>>

\* WaitForN returns, and the observer is removed.
WaitForN ==
    /\ listen = "waits" /\ notified /\ listen' = "returned"
    /\ UNCHANGED <<reachable, reporting, host, established, events, notifying, notified, had,
                   losses>>

\* The hosting connection is lost; run binds to the router again.
Lost(r) ==
    /\ losses < MaxLosses /\ losses' = losses + 1
    /\ host[r] = "reported" /\ host' = [host EXCEPT ![r] = "binding"]
    /\ established' = established \ {r}
    /\ UNCHANGED <<reachable, reporting, events, notifying, notified, listen, had>>

Binds(r) == Replied(r) \/ AddListener(r) \/ ListenSuccess(r) \/ BindSuccess(r)

\* Nothing is under way: what the timeout, seconds long, waits for has happened.
Settled == ~notified /\ events = 0 /\ notifying = 0 /\ \A r \in Routers : ~ENABLED Binds(r)

\* WaitForN times out, and newListenerManager closes the listener.
GiveUp ==
    /\ listen = "waits" /\ Settled
    /\ listen' = "gaveUp" /\ had' = GetEstablishedCount
    /\ host' = [r \in Routers |-> "closed"] /\ established' = {}
    /\ UNCHANGED <<reachable, reporting, events, notifying, notified, losses>>

WaitNext ==
    \/ NotifyObservers \/ Notify \/ WaitForN \/ GiveUp
    \/ \E r \in Routers : Binds(r) \/ Lost(r)

WaitSpec == WaitInit /\ [][WaitNext]_waitVars

-----------------------------------------------------------------------------
\* "how long to wait before giving if N listeners can't be established"
\* (zt/options.go): a Listen that gives up, when nothing is under way any more,
\* did not have N established listeners.
GivesUpOnlyWithout == listen = "gaveUp" => had < N
=============================================================================
