-------------------------- MODULE RetransmitQueue --------------------------
(* What the retransmitter promises: queued payloads are sent again in the    *)
(* order they were queued, each once per queueing, unless they are           *)
(* acknowledged first.                                                       *)
EXTENDS Sequences, SequencesExt

CONSTANTS Payloads, Nil

VARIABLES pending,     \* unacknowledged payloads waiting, oldest first
          sending    \* the payload being sent again, or Nil

Init == pending = <<>> /\ sending = Nil

Enqueue(p) ==
    /\ ~Contains(pending, p) /\ sending # p
    /\ pending' = Append(pending, p)
    /\ UNCHANGED sending

Acked(p) == Contains(pending, p) /\ pending' = RemoveFirst(pending, p) /\ UNCHANGED sending

Take ==
    /\ sending = Nil /\ pending # <<>>
    /\ sending' = Head(pending)
    /\ pending' = Tail(pending)

Sent == sending # Nil /\ sending' = Nil /\ UNCHANGED pending

Next == Take \/ Sent \/ \E p \in Payloads : Enqueue(p) \/ Acked(p)

Spec == Init /\ [][Next]_<<pending, sending>>
=============================================================================
