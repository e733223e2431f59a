---------------------------- MODULE SdkChannel ----------------------------
(***************************************************************************)
(* The SDK's channel to a router (zt/edge/channel.go): several underlays,  *)
(* of type default or control, take messages from shared queues.  An       *)
(* underlay may close or fail to send at any time; what it could not send  *)
(* goes to the retry queue.  The channel library that runs the underlays,  *)
(* and its UnderlayConstraints, are external and modelled from their use:  *)
(* the channel closes when a type is below its minimum (one default        *)
(* underlay, no control underlay), and otherwise dials what is missing.    *)
(***************************************************************************)
EXTENDS Naturals, Sequences

CONSTANTS DefaultUnderlays, ControlUnderlays,  \* up to their maximum numbers
          DefaultMsgs, ControlMsgs,            \* what the two senders are given
          QueueSize,                           \* of each queue (64, 4 and 4 in the code)
          MaxFaults                            \* bound on underlay failures

VARIABLES up,         \* per underlay: "dialling" | "ready" | "selecting" | "sending"
          withControl,\* per underlay: whether its select includes the control queue
          sending,    \* per underlay: the message it sends, as a sequence
          controlChannelAvailable,
          queue,      \* "default", "control" and "retry" message queues
          closed,     \* the channel is closed
          accepted, sent, dropped,  \* history: messages taken from senders, on the wire, given up
          faults

channelVars == <<up, withControl, sending, controlChannelAvailable, queue, closed, accepted, sent, dropped, faults>>

Underlays == DefaultUnderlays \cup ControlUnderlays
Live(states) == {u \in Underlays : states[u] # "dialling"}

\* The channel starts with one default underlay; Start dials the others.
ChannelInit ==
    /\ \E first \in DefaultUnderlays :
         up = [u \in Underlays |-> IF u = first THEN "ready" ELSE "dialling"]
    /\ withControl = [u \in Underlays |-> FALSE]
    /\ sending = [u \in Underlays |-> <<>>]
    /\ controlChannelAvailable = FALSE
    /\ queue = [q \in {"default", "control", "retry"} |-> <<>>]
    /\ closed = FALSE /\ accepted = {} /\ sent = {} /\ dropped = {} /\ faults = 0

Room(q) == Len(queue[q]) < QueueSize

Send(m) ==
    LET q == IF m \in ControlMsgs THEN "control" ELSE "default"
    IN /\ ~closed /\ m \notin accepted /\ Room(q)
       /\ queue' = [queue EXCEPT ![q] = Append(@, m)]
       /\ accepted' = accepted \cup {m}
       /\ UNCHANGED <<up, withControl, sending, controlChannelAvailable, closed, sent, dropped, faults>>

\* GetNextMsgDefault looks once whether a control underlay exists and then waits.
GetNextMsg(u) ==
    /\ ~closed /\ up[u] = "ready"
    /\ up' = [up EXCEPT ![u] = "selecting"]
    /\ withControl' = [withControl EXCEPT ![u] = u \in ControlUnderlays \/ ~controlChannelAvailable]
    /\ UNCHANGED <<sending, controlChannelAvailable, queue, closed, accepted, sent, dropped, faults>>

Sources(u) == {"retry"} \cup (IF u \in DefaultUnderlays THEN {"default"} ELSE {})
                        \cup (IF withControl[u] THEN {"control"} ELSE {})

Select(u) ==
    /\ ~closed /\ up[u] = "selecting"
    /\ \E q \in Sources(u) :
         /\ queue[q] # <<>>
         /\ sending' = [sending EXCEPT ![u] = <<Head(queue[q])>>]
         /\ queue' = [queue EXCEPT ![q] = Tail(@)]
    /\ up' = [up EXCEPT ![u] = "sending"]
    /\ UNCHANGED <<withControl, controlChannelAvailable, closed, accepted, sent, dropped, faults>>

Tx(u) ==
    /\ ~closed /\ up[u] = "sending"
    /\ sent' = sent \cup {sending[u][1]}
    /\ sending' = [sending EXCEPT ![u] = <<>>]
    /\ up' = [up EXCEPT ![u] = "ready"]
    /\ UNCHANGED <<withControl, controlChannelAvailable, queue, closed, accepted, dropped, faults>>

UpdateCtrlChannelAvailable == controlChannelAvailable' = (Live(up') \cap ControlUnderlays # {})

\* constraints.Apply: below one default underlay the channel closes.
Apply == closed' = (Live(up') \cap DefaultUnderlays = {})

\* Mutant: the channel is not checked, and nothing is dialled, after a close.
CloseOnly(u) ==
    /\ up' = [up EXCEPT ![u] = "gone"]
    /\ UpdateCtrlChannelAvailable
    /\ UNCHANGED closed

HandleUnderlayClose(u) ==
    /\ up' = [up EXCEPT ![u] = "dialling"]
    /\ UpdateCtrlChannelAvailable
    /\ Apply

HandleTxFailed(m) ==
    \/ \E q \in {"retry", "default"} :
         /\ Room(q)
         /\ queue' = [queue EXCEPT ![q] = Append(@, m)] /\ UNCHANGED dropped
    \/ /\ ~Room("retry") /\ ~Room("default")
       /\ dropped' = dropped \cup {m} /\ UNCHANGED queue

UnderlayFails(u) ==
    /\ ~closed /\ u \in Live(up) /\ faults < MaxFaults
    /\ faults' = faults + 1
    /\ IF up[u] = "sending" THEN HandleTxFailed(sending[u][1]) ELSE UNCHANGED <<queue, dropped>>
    /\ sending' = [sending EXCEPT ![u] = <<>>]
    /\ HandleUnderlayClose(u)
    /\ UNCHANGED <<withControl, accepted, sent>>

\* CreateGroupedUnderlay waits, checks the channel again and dials; DialFailed
\* waits and leads to another attempt.
CreateGroupedUnderlay(u) ==
    /\ ~closed /\ up[u] = "dialling"
    /\ up' = [up EXCEPT ![u] = "ready"]
    /\ UpdateCtrlChannelAvailable           \* HandleUnderlayAccepted
    /\ UNCHANGED <<withControl, sending, queue, closed, accepted, sent, dropped, faults>>

ChannelNext ==
    \/ \E m \in DefaultMsgs \cup ControlMsgs : Send(m)
    \/ \E u \in Underlays :
         \/ GetNextMsg(u)
         \/ Select(u)
         \/ Tx(u)
         \/ UnderlayFails(u)
         \/ CreateGroupedUnderlay(u)

\* Each underlay has a goroutine that sends, and a missing one a goroutine that
\* dials until it succeeds; failures are bounded.
UnderlayRuns(u) == GetNextMsg(u) \/ Select(u) \/ Tx(u) \/ CreateGroupedUnderlay(u)

---------------------------------------------------------------------------

AllLeft == accepted \subseteq sent \cup dropped \/ closed

\* Every message taken from a sender is sent, or given up because the retry and
\* default queues are full, or the channel closes: none is forgotten when an
\* underlay fails while sending it, and a control message leaves also when the
\* control underlay it waits for is gone and the default underlays are waiting
\* for default messages only.
MessagesLeave == []<>AllLeft
===========================================================================
