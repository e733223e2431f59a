------------------------- MODULE WriteAdapterProofs -------------------------
(***************************************************************************)
(* Write deadlines are exact for any number of deadlines, set at any time. *)
(* WriteDeadlineExact alone is not inductive.  That a timed-out write was  *)
(* due needs what a waiting write knows: its channel is not newer than the *)
(* current one, and once that channel is closed, replaced, or the deadline *)
(* has passed, the write is due.  That a passed deadline cancels writes    *)
(* needs the timer of a deadline to come: it cannot have run before.       *)
(***************************************************************************)
EXTENDS WriteAdapter, TLAPS

TypeOK ==
    /\ now \in Nat /\ writeDeadline \in Nat /\ writeCalls \in Nat
    /\ doneNotify \in Nat /\ timers \subseteq Nat \ {0}
    /\ writer \in [pc : {"idle", "waiting", "timeout"}, channel : Nat]

\* A deadline to come has its timer.
TimerSet == writeDeadline > now => writeDeadline \in timers

\* What a waiting write knows.
WaitingKnows ==
    writer.pc = "waiting" =>
        /\ writer.channel <= doneNotify
        /\ writer.channel < doneNotify \/ doneNotifyClosed => due
        /\ Passed(writeDeadline, now) => due

IInv == TypeOK /\ TimerSet /\ WaitingKnows /\ WriteDeadlineExact

LEMMA InitHolds == WriteInit => IInv
BY DEF WriteInit, IInv, TypeOK, TimerSet, WaitingKnows, WriteDeadlineExact, NoWrite, Passed

\* Setting a deadline: a new one to come gets its timer and an open channel, one
\* that is past closes the channel and makes the waiting write due.
LEMMA SetWriteDeadlineKeeps ==
    ASSUME IInv, NEW t \in Nat, SetWriteDeadline(t)
    PROVE  IInv'
<1>1. /\ writeDeadline' = t /\ now' = now /\ writer' = writer
      /\ writeCalls' = writeCalls + 1
      /\ writer.pc = "waiting" /\ (due \/ Passed(t, now)) => due'
      /\ due => due'
  BY DEF SetWriteDeadline, Watch
<1>2. \/ /\ (t = 0 /\ timers' = timers) \/ (t > now /\ timers' = timers \cup {t})
         /\ Reopen
      \/ t # 0 /\ t <= now /\ timers' = timers /\ CloseDone
  BY DEF SetWriteDeadline
<1>3. Reopen => /\ ~doneNotifyClosed'
                /\ \/ doneNotifyClosed /\ doneNotify' = doneNotify + 1
                   \/ doneNotify' = doneNotify
  BY DEF Reopen
<1>4. CloseDone => doneNotifyClosed' /\ doneNotify' = doneNotify
  BY DEF CloseDone
<1> USE DEF IInv, TypeOK, Passed
<1>5. TypeOK'
  <2>1. timers' \subseteq Nat \ {0}
    <3>1. CASE timers' = timers
      BY <3>1
    <3>2. CASE t > now /\ timers' = timers \cup {t}
      <4>1. t # 0
        BY <3>2
      <4>2. QED
        BY <3>2, <4>1
    <3>3. QED
      BY <1>2, <3>1, <3>2
  <2>2. doneNotify' \in Nat
    BY <1>2, <1>3, <1>4
  <2>3. QED
    BY <1>1, <2>1, <2>2
<1>6. TimerSet'
  BY <1>1, <1>2 DEF TimerSet
<1>7. WaitingKnows'
  BY <1>1, <1>2, <1>3, <1>4 DEF WaitingKnows, WriteDeadlineExact
<1>8. WriteDeadlineExact'
  BY <1>1, <1>2, <1>3, <1>4 DEF WriteDeadlineExact
<1>9. QED
  BY <1>5, <1>6, <1>7, <1>8

\* A timer runs when its time has passed, so it is not that of a deadline to come;
\* it closes the channel only if its deadline is still the current one, and then a
\* waiting write is due already.
LEMMA TimerRunsKeeps ==
    ASSUME IInv, NEW t \in timers, TimerRuns(t)
    PROVE  IInv'
<1>1. /\ writeDeadline' = writeDeadline /\ now' = now /\ writer' = writer /\ due' = due
      /\ writeCalls' = writeCalls /\ t <= now /\ timers' = timers \ {t}
  BY DEF TimerRuns
<1>2. doneNotify' = doneNotify
  BY DEF TimerRuns, CloseDone, doneVars
<1>3. \/ t = writeDeadline /\ doneNotifyClosed'
      \/ t # writeDeadline /\ doneNotifyClosed' = doneNotifyClosed
  BY DEF TimerRuns, CloseDone, doneVars
<1> USE DEF IInv, TypeOK, Passed
<1>4. TypeOK' /\ TimerSet'
  BY <1>1, <1>2 DEF TimerSet
<1>5. WaitingKnows'
  BY <1>1, <1>2, <1>3 DEF WaitingKnows
<1>6. WriteDeadlineExact'
  BY <1>1, <1>2, <1>3 DEF WriteDeadlineExact
<1>7. QED
  BY <1>4, <1>5, <1>6

LEMMA WriteStepsKeep ==
    ASSUME IInv, WriteWaits \/ WriteEnds \/ WriteReturns
    PROVE  IInv'
<1> USE DEF IInv, TypeOK, TimerSet, WaitingKnows, WriteDeadlineExact, Passed, NoWrite, doneVars
<1>1. CASE WriteWaits
  <2>1. Passed(writeDeadline, now) => due'
    BY <1>1 DEF WriteWaits
  <2>2. QED
    BY <1>1, <2>1 DEF WriteWaits
<1>2. CASE WriteEnds
  BY <1>2 DEF WriteEnds
<1>3. CASE WriteReturns
  BY <1>3 DEF WriteReturns
<1>4. QED
  BY <1>1, <1>2, <1>3

\* The clock reaches the deadline: its timer has not run, and a write that waits
\* becomes due.
LEMMA ClockTicksKeeps ==
    ASSUME IInv, ClockTicks
    PROVE  IInv'
<1>0. due \/ (writer.pc = "waiting" /\ Passed(writeDeadline, now')) => due'
  BY DEF ClockTicks, Watch
<1> USE DEF IInv, TypeOK, ClockTicks, doneVars, Passed
<1>1. TypeOK'
  OBVIOUS
<1>2. TimerSet'
  BY DEF TimerSet
<1>3. WaitingKnows'
  BY <1>0 DEF WaitingKnows
<1>4. WriteDeadlineExact'
  BY <1>0 DEF WriteDeadlineExact, TimerSet
<1>5. QED
  BY <1>1, <1>2, <1>3, <1>4

\* A write times out only if its deadline passed while it waited, and a passed
\* deadline cancels writes until another is set, whatever timers of earlier
\* deadlines are still to run (WriteAdapter.SetWriteDeadline).
THEOREM DeadlinesAreExact ==
    ASSUME MaxTime \in Nat
    PROVE  WriteSpec => []WriteDeadlineExact
<1>1. WriteInit => IInv
  BY InitHolds
<1>2. IInv /\ [WriteNext]_writeVars => IInv'
  <2> SUFFICES ASSUME IInv, [WriteNext]_writeVars PROVE IInv'
    OBVIOUS
  <2>1. ASSUME NEW t \in 0..MaxTime, SetWriteDeadline(t) PROVE IInv'
    BY <2>1, SetWriteDeadlineKeeps
  <2>2. ASSUME NEW t \in timers, TimerRuns(t) PROVE IInv'
    BY <2>2, TimerRunsKeeps
  <2>3. CASE WriteWaits \/ WriteEnds \/ WriteReturns
    BY <2>3, WriteStepsKeep
  <2>4. CASE ClockTicks
    BY <2>4, ClockTicksKeeps
  <2>5. CASE UNCHANGED writeVars
    BY <2>5 DEF writeVars, doneVars, IInv, TypeOK, TimerSet, WaitingKnows, WriteDeadlineExact, Passed
  <2>6. QED
    BY <2>1, <2>2, <2>3, <2>4, <2>5 DEF WriteNext
<1>3. IInv => WriteDeadlineExact
  BY DEF IInv
<1>4. QED
  BY <1>1, <1>2, <1>3, PTL DEF WriteSpec
=============================================================================
