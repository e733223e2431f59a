----------------------------- MODULE SendBuffer -----------------------------
(* What LinkSendBuffer promises the rest of the xgress: a payload is taken   *)
(* into the buffer before it is forwarded and leaves it only by an ack; new  *)
(* payloads are admitted within the window, or when nothing is in flight.    *)
(* The run loop's decision may be one payload old (gateOpen).                *)
EXTENDS Integers, FiniteSetsExt

CONSTANTS MaxSeq, DataLen, MaxWaiting, MayFail, TxPortalMaxSize

Seqs == 0..MaxSeq

VARIABLES rxSequence, waiting, buffer, forwarded, acked, failed,
          linkRecvBufferSize, closing, gateOpen

vars == <<rxSequence, waiting, buffer, forwarded, acked, failed,
          linkRecvBufferSize, closing, gateOpen>>

Init ==
    /\ rxSequence = 0 /\ waiting = {} /\ buffer = {} /\ forwarded = {}
    /\ acked = {} /\ failed = {} /\ linkRecvBufferSize = 0
    /\ closing = FALSE /\ gateOpen = FALSE

\* A writer has taken the next sequence number and waits to be admitted.
Write ==
    /\ rxSequence <= MaxSeq /\ Cardinality(waiting) < MaxWaiting
    /\ waiting' = waiting \cup {rxSequence}
    /\ rxSequence' = rxSequence + 1
    /\ UNCHANGED <<buffer, forwarded, acked, failed, linkRecvBufferSize, closing, gateOpen>>

\* The write gives up (deadline or close); its number is never used again.
Fail(s) ==
    /\ MayFail /\ s \in waiting
    /\ waiting' = waiting \ {s}
    /\ failed' = failed \cup {s}
    /\ UNCHANGED <<rxSequence, buffer, forwarded, acked, linkRecvBufferSize, closing, gateOpen>>

InFlight == MapThenSumSet(LAMBDA s : DataLen[s], buffer)

MayAdmit ==
    \/ closing
    \/ InFlight = 0
    \/ InFlight <= TxPortalMaxSize /\ linkRecvBufferSize <= TxPortalMaxSize

Take(s) ==
    /\ s \in waiting
    /\ waiting' = waiting \ {s}
    /\ buffer' = buffer \cup {s}
    /\ UNCHANGED <<rxSequence, forwarded, acked, failed, linkRecvBufferSize, closing>>

Admit(s) == MayAdmit /\ Take(s) /\ gateOpen' = TRUE

AdmitLate(s) == gateOpen /\ Take(s) /\ gateOpen' = FALSE

SetGate ==
    /\ gateOpen' = (MayAdmit /\ ~gateOpen)
    /\ UNCHANGED <<rxSequence, waiting, buffer, forwarded, acked, failed,
                   linkRecvBufferSize, closing>>

Forward(s) ==
    /\ s \in buffer \ forwarded
    /\ forwarded' = forwarded \cup {s}
    /\ UNCHANGED <<rxSequence, waiting, buffer, acked, failed, linkRecvBufferSize,
                   closing, gateOpen>>

\* The payloads the retransmitter may send again.
Resend(s) == s \in buffer \cap forwarded /\ UNCHANGED vars

Ack(seqs, recv) ==
    /\ buffer' = buffer \ seqs
    /\ acked' = acked \cup (seqs \cap buffer)
    /\ linkRecvBufferSize' = recv
    /\ gateOpen' \in {FALSE, gateOpen}
    /\ UNCHANGED <<rxSequence, waiting, forwarded, failed, closing>>

CloseWhenEmpty ==
    /\ closing' = TRUE
    /\ UNCHANGED <<rxSequence, waiting, buffer, forwarded, acked, failed,
                   linkRecvBufferSize, gateOpen>>

Next ==
    \/ Write \/ SetGate \/ CloseWhenEmpty
    \/ \E s \in Seqs : Fail(s) \/ Admit(s) \/ AdmitLate(s) \/ Forward(s) \/ Resend(s)
    \/ \E seqs \in SUBSET forwarded : Ack(seqs, linkRecvBufferSize')

Spec == Init /\ [][Next]_vars
=============================================================================
