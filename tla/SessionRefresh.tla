--------------------------- MODULE SessionRefresh ---------------------------
(***************************************************************************)
(* When a listenerManager (zt/zt.go) looks its bind session up again.  The *)
(* time to the next refresh depends on how many endpoints the session has, *)
(* grows while nothing changes and is drawn at random around a base line.  *)
(* rand.Int63n panics on zero, and a timer of zero would keep run busy.    *)
(***************************************************************************)
EXTENDS Integers

CONSTANTS MaxTerminators,  \* ListenOptions.MaxTerminators
          MaxEndpoints,    \* bound: usable endpoints of a session
          Step,            \* base line after a change, and its growth: 30 s
          MaxBaseLine,     \* the base line grows up to here: 5 min
          MaxInterval,     \* longest interval: 30 min
          Impatient,       \* intervals without an endpoint: 5 to 14 s
          Quick,           \* intervals after a listener is lost: 0.1 to 9.1 s
          Long             \* what is longer than this is cut short then: 10 s

ASSUME RefreshAssumption ==
    /\ MaxTerminators \in Nat \ {0} /\ MaxEndpoints \in Nat
    /\ Step \in Nat /\ Step >= 2 /\ MaxBaseLine \in Nat
    /\ MaxInterval \in Nat /\ MaxInterval >= 2 * (MaxBaseLine + Step)
    /\ Impatient \subseteq 1..MaxInterval /\ Quick \subseteq 1..MaxInterval /\ Long \in Nat

VARIABLES session,   \* usable endpoints of mgr.session, None without one
          baseLine,  \* sessionRefreshBaseLine
          interval,  \* sessionRefreshInterval
          timer,     \* what refreshSessionChan was last armed with
          panicked   \* rand.Int63n was called with zero

refreshVars == <<session, baseLine, interval, timer, panicked>>

None == -1

\* run has no session and no timer.
RefreshInit ==
    session = None /\ baseLine = 0 /\ interval = 0 /\ timer = 0 /\ panicked = FALSE

getUsableEndpointCount == IF session = None THEN 0 ELSE session

-----------------------------------------------------------------------------
(* sessionRefreshed, with a session of n endpoints.                          *)

Few(n) == n # 0 /\ n < MaxTerminators

\* Mutant: the base line is reset when endpoints are lost only.
BaseIfFewer(n) == IF n < getUsableEndpointCount THEN Step ELSE baseLine

\* "if there's been a change, check reset baseline".
Base(n) == IF n # getUsableEndpointCount THEN Step ELSE baseLine

Half(n) == Base(n) \div 2

\* The interval is drawn from these; there are none when rand.Int63n panics.
Intervals(n) ==
    IF n = 0 THEN Impatient
    ELSE IF Few(n) THEN {Half(n) + 2 * w : w \in 0..(Half(n) - 1)}
    ELSE {MaxInterval}

NextBaseLine(n) ==
    IF ~Few(n) THEN baseLine
    ELSE IF Base(n) < MaxBaseLine THEN Base(n) + Step ELSE Base(n)

Doubled(i) == IF 2 * i > MaxInterval THEN MaxInterval ELSE 2 * i

\* The session is replaced; the timer is armed anew.
sessionRefreshed(n, i) ==
    /\ session' = n /\ baseLine' = NextBaseLine(n)
    /\ interval' = i /\ timer' = i
    /\ UNCHANGED panicked

Panics(n) ==
    /\ Few(n) /\ Half(n) = 0
    /\ panicked' = TRUE
    /\ UNCHANGED <<session, baseLine, interval, timer>>

-----------------------------------------------------------------------------
\* A session is made: the first one, or another after it was lost.
CreateSession(n) ==
    \/ Panics(n)
    \/ \E i \in Intervals(n) : sessionRefreshed(n, i)

\* The timer fires and the session is refreshed; the interval that was drawn is
\* doubled before the timer is armed with it.
TimedRefresh(n) ==
    /\ timer > 0
    /\ \/ Panics(n)
       \/ \E i \in Intervals(n) :
            /\ session' = n /\ baseLine' = NextBaseLine(n)
            /\ interval' = Doubled(i) /\ timer' = Doubled(i)
            /\ UNCHANGED panicked

\* The timer fires and the session stays as it is.
TimedRefreshFails ==
    /\ timer > 0
    /\ timer' = interval /\ interval' = Doubled(interval)
    /\ UNCHANGED <<session, baseLine, panicked>>

\* A listener is lost and the session not refreshed.
ListenFailed ==
    /\ timer > 0 /\ interval > Long
    /\ \E i \in Quick : interval' = i /\ timer' = i
    /\ UNCHANGED <<session, baseLine, panicked>>

\* A router wants run to start over: the session goes before another is made.
StartOver ==
    /\ timer > 0
    /\ session' = None
    /\ UNCHANGED <<baseLine, interval, timer, panicked>>

RefreshNext ==
    /\ ~panicked
    /\ \/ \E n \in 0..MaxEndpoints : CreateSession(n) \/ TimedRefresh(n)
       \/ TimedRefreshFails \/ ListenFailed \/ StartOver

RefreshSpec == RefreshInit /\ [][RefreshNext]_refreshVars

-----------------------------------------------------------------------------
\* sessionRefreshed never calls rand.Int63n with zero, although the base line is
\* zero until a session with too few endpoints sets it; and once there has been a
\* session run's timer is armed with a time that is neither zero nor longer than
\* half an hour.
RefreshesInTime ==
    /\ ~panicked
    /\ session # None => timer \in 1..MaxInterval /\ interval \in 1..MaxInterval
=============================================================================
