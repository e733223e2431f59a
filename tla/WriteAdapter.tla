---------------------------- MODULE WriteAdapter ----------------------------
(***************************************************************************)
(* The write deadline of a connection over an xgress (WriteAdapter in      *)
(* xgress/xgress.go): a context whose Done channel is closed by a timer or *)
(* by a deadline that is past already, and replaced when a later deadline  *)
(* is set.  A channel is a number; only the current one can be open.       *)
(***************************************************************************)
EXTENDS Integers

CONSTANTS MaxTime,         \* bound of the clock; deadlines are 1..MaxTime, 0 is none
          MaxWriteDeadlines \* bound: calls of SetWriteDeadline

VARIABLES
    now,              \* the time
    writeDeadline,    \* WriteAdapter.deadline
    doneNotify,       \* the current channel
    doneNotifyClosed, \* whether it is closed
    timers,           \* the deadlines of timers that have not run
    writer,           \* a write: its step, and the channel it selects on
    due,              \* history: a deadline passed while the write waited
    writeCalls        \* calls of SetWriteDeadline

doneVars == <<doneNotify, doneNotifyClosed>>
writeVars == <<now, writeDeadline, doneVars, timers, writer, due, writeCalls>>

NoWrite == [pc |-> "idle", channel |-> 0]

WriteInit ==
    /\ now = 1 /\ writeDeadline = 0 /\ doneNotify = 1 /\ doneNotifyClosed = FALSE
    /\ timers = {} /\ writer = NoWrite /\ due = FALSE /\ writeCalls = 0

Passed(t, time) == t # 0 /\ t <= time
Watch(t, time) == due' = (due \/ (writer.pc = "waiting" /\ Passed(t, time)))

Reopen ==
    /\ doneNotify' = IF doneNotifyClosed THEN doneNotify + 1 ELSE doneNotify
    /\ doneNotifyClosed' = FALSE
CloseDone == doneNotifyClosed' = TRUE /\ UNCHANGED doneNotify

SetWriteDeadline(t) ==
    /\ writeCalls < MaxWriteDeadlines /\ writeCalls' = writeCalls + 1
    /\ writeDeadline' = t
    /\ \/ t = 0 /\ Reopen /\ UNCHANGED timers
       \/ t > now /\ Reopen /\ timers' = timers \cup {t}
       \/ t # 0 /\ t <= now /\ CloseDone /\ UNCHANGED timers
    /\ Watch(t, now)
    /\ UNCHANGED <<now, writer>>

\* Mutant: a timer does not look whether it is still the deadline's.
AnyTimerRuns(t) ==
    /\ t <= now /\ timers' = timers \ {t} /\ CloseDone
    /\ UNCHANGED <<now, writeDeadline, writer, due, writeCalls>>

\* The function of time.AfterFunc, some time after the timer has expired.
TimerRuns(t) ==
    /\ t <= now /\ timers' = timers \ {t}
    /\ IF t = writeDeadline THEN CloseDone ELSE UNCHANGED doneVars
    /\ UNCHANGED <<now, writeDeadline, writer, due, writeCalls>>

\* BufferPayloadWithDeadline takes the channel from Done and waits for room; it
\* fails when that channel is closed.
WriteWaits ==
    /\ writer.pc = "idle"
    /\ writer' = [pc |-> "waiting", channel |-> doneNotify]
    /\ due' = Passed(writeDeadline, now)
    /\ UNCHANGED <<now, writeDeadline, doneVars, timers, writeCalls>>
WriteEnds ==
    /\ writer.pc = "waiting"
    /\ \/ writer' = NoWrite
       \/ /\ writer.channel < doneNotify \/ doneNotifyClosed
          /\ writer' = [writer EXCEPT !.pc = "timeout"]
    /\ UNCHANGED <<now, writeDeadline, doneVars, timers, due, writeCalls>>
WriteReturns ==
    /\ writer.pc = "timeout" /\ writer' = NoWrite
    /\ UNCHANGED <<now, writeDeadline, doneVars, timers, due, writeCalls>>

ClockTicks ==
    /\ now < MaxTime /\ now' = now + 1
    /\ Watch(writeDeadline, now')
    /\ UNCHANGED <<writeDeadline, doneVars, timers, writer, writeCalls>>

WriteNext ==
    \/ \E t \in 0..MaxTime : SetWriteDeadline(t)
    \/ \E t \in timers : TimerRuns(t)
    \/ WriteWaits \/ WriteEnds \/ WriteReturns \/ ClockTicks

WriteSpec == WriteInit /\ [][WriteNext]_writeVars

-----------------------------------------------------------------------------
\* A write times out only if a deadline passed while it waited, never by the
\* timer of a deadline that was moved or cleared before; and once a deadline has
\* passed and its timer has run, writes are cancelled until another is set
\* (SetWriteDeadline and the timer's function).
WriteDeadlineExact ==
    /\ writer.pc = "timeout" => due
    /\ doneNotifyClosed => Passed(writeDeadline, now)
    /\ Passed(writeDeadline, now) /\ writeDeadline \notin timers => doneNotifyClosed
=============================================================================
