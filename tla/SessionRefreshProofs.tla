------------------------ MODULE SessionRefreshProofs ------------------------
(***************************************************************************)
(* The refresh timer of a listenerManager, for every length of its base    *)
(* line, steps and intervals, and any number of endpoints.                 *)
(***************************************************************************)
EXTENDS SessionRefresh, TLAPS

\* The base line that is zero at first belongs to a session that needs no draw:
\* one that has too few endpoints has set it. A timer is armed together with the
\* interval.
RefreshInv ==
    /\ panicked = FALSE
    /\ session \in Nat \cup {None}
    /\ baseLine \in 0..(MaxBaseLine + Step)
    /\ interval \in 0..MaxInterval /\ timer \in 0..MaxInterval
    /\ session # None \/ timer > 0 => timer > 0 /\ interval > 0
    /\ session # None /\ Few(session) => baseLine >= Step

\* The initial state has no session and no timer (newListenerManager).
LEMMA InitRefreshes == RefreshInit => RefreshInv
BY RefreshAssumption DEF RefreshInit, RefreshInv, None

\* A draw is made around a base line that is at least one step long
\* (sessionRefreshed), so that rand.Int63n is not called with zero.
LEMMA BaseIsPositive ==
    ASSUME RefreshInv, NEW n \in Nat, Few(n)
    PROVE  /\ Base(n) \in Step..(MaxBaseLine + Step)
           /\ Half(n) \in Nat \ {0} /\ 2 * Half(n) <= Base(n)
<1>1. Base(n) \in Step..(MaxBaseLine + Step)
  <2>1. CASE n # getUsableEndpointCount
    BY <2>1, RefreshAssumption DEF Base
  <2>2. CASE n = getUsableEndpointCount
    <3>1. session # None /\ session = n
      BY <2>2 DEF getUsableEndpointCount, Few
    <3>2. QED
      BY <2>2, <3>1, RefreshAssumption DEF Base, RefreshInv
  <2>3. QED
    BY <2>1, <2>2
<1>2. QED
  BY <1>1, RefreshAssumption DEF Half

\* What sessionRefreshed chooses is a positive time within the limit.
LEMMA IntervalsInRange ==
    ASSUME RefreshInv, NEW n \in Nat, NEW i \in Intervals(n)
    PROVE  i \in 1..MaxInterval
<1>1. CASE n = 0
  BY <1>1, RefreshAssumption DEF Intervals
<1>2. CASE Few(n)
  <2>1. PICK w \in 0..(Half(n) - 1) : i = Half(n) + 2 * w
    BY <1>2 DEF Intervals, Few
  <2>2. /\ Half(n) \in Nat \ {0} /\ 2 * Half(n) <= Base(n)
        /\ Base(n) \in Step..(MaxBaseLine + Step)
    BY <1>2, BaseIsPositive
  <2>3. QED
    BY <2>1, <2>2, RefreshAssumption
<1>3. CASE n # 0 /\ ~Few(n)
  <2>1. MaxInterval >= 1
    BY RefreshAssumption
  <2>2. QED
    BY <1>3, <2>1, RefreshAssumption DEF Intervals
<1>4. QED
  BY <1>1, <1>2, <1>3

\* The base line stays within its limit, and is set for too few endpoints.
LEMMA NextBaseInRange ==
    ASSUME RefreshInv, NEW n \in Nat
    PROVE  /\ NextBaseLine(n) \in 0..(MaxBaseLine + Step)
           /\ Few(n) => NextBaseLine(n) >= Step
<1>1. CASE Few(n)
  BY <1>1, BaseIsPositive, RefreshAssumption DEF NextBaseLine
<1>2. CASE ~Few(n)
  BY <1>2 DEF NextBaseLine, RefreshInv
<1>3. QED
  BY <1>1, <1>2

\* sessionRefreshed does not panic.
LEMMA NeverPanics ==
    ASSUME RefreshInv, NEW n \in Nat
    PROVE  ~Panics(n)
BY BaseIsPositive DEF Panics

\* Every iteration of run keeps the invariant.
LEMMA StepRefreshes == RefreshInv /\ [RefreshNext]_refreshVars => RefreshInv'
<1> SUFFICES ASSUME RefreshInv, [RefreshNext]_refreshVars PROVE RefreshInv'
  OBVIOUS
<1>1. ASSUME NEW n \in 0..MaxEndpoints, CreateSession(n) PROVE RefreshInv'
  <2>1. n \in Nat
    BY RefreshAssumption
  <2>2. PICK i \in Intervals(n) : sessionRefreshed(n, i)
    BY <1>1, <2>1, NeverPanics DEF CreateSession
  <2>3. /\ i \in 1..MaxInterval /\ NextBaseLine(n) \in 0..(MaxBaseLine + Step)
        /\ Few(n) => NextBaseLine(n) >= Step
    BY <2>1, IntervalsInRange, NextBaseInRange
  <2>4. QED
    BY <2>1, <2>2, <2>3, RefreshAssumption DEF RefreshInv, sessionRefreshed, None, Few
<1>2. ASSUME NEW n \in 0..MaxEndpoints, TimedRefresh(n) PROVE RefreshInv'
  <2>1. n \in Nat
    BY RefreshAssumption
  <2>2. PICK i \in Intervals(n) : /\ session' = n /\ baseLine' = NextBaseLine(n)
                                  /\ interval' = Doubled(i) /\ timer' = Doubled(i)
                                  /\ UNCHANGED panicked
    BY <1>2, <2>1, NeverPanics DEF TimedRefresh
  <2>3. /\ i \in 1..MaxInterval /\ NextBaseLine(n) \in 0..(MaxBaseLine + Step)
        /\ Few(n) => NextBaseLine(n) >= Step
    BY <2>1, IntervalsInRange, NextBaseInRange
  <2>4. Doubled(i) \in 1..MaxInterval
    BY <2>3, RefreshAssumption DEF Doubled
  <2>5. QED
    BY <2>1, <2>2, <2>3, <2>4, RefreshAssumption DEF RefreshInv, None, Few
<1>3. CASE TimedRefreshFails
  <2>1. timer > 0 /\ interval \in 1..MaxInterval
    BY <1>3 DEF TimedRefreshFails, RefreshInv
  <2>2. Doubled(interval) \in 1..MaxInterval
    BY <2>1, RefreshAssumption DEF Doubled
  <2>3. QED
    BY <1>3, <2>1, <2>2, RefreshAssumption DEF TimedRefreshFails, RefreshInv, None, Few
<1>4. CASE ListenFailed
  BY <1>4, RefreshAssumption DEF ListenFailed, RefreshInv, None, Few
<1>5. CASE StartOver
  BY <1>5, RefreshAssumption DEF StartOver, RefreshInv, None, Few
<1>6. CASE UNCHANGED refreshVars
  BY <1>6 DEF refreshVars, RefreshInv, Few
<1>7. QED
  BY <1>1, <1>2, <1>3, <1>4, <1>5, <1>6 DEF RefreshNext

\* A listenerManager's refresh never panics on an empty draw, and its timer is
\* always armed with a positive time that is at most the longest interval
\* (sessionRefreshed, run).
THEOREM AlwaysRefreshesInTime == RefreshSpec => []RefreshesInTime
<1>1. RefreshInv => RefreshesInTime
  BY RefreshAssumption DEF RefreshInv, RefreshesInTime
<1>2. QED
  BY <1>1, InitRefreshes, StepRefreshes, PTL DEF RefreshSpec
=============================================================================
