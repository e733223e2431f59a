--------------------------- MODULE OrderedStream ---------------------------
(* What an xgress circuit promises in one direction: payloads become         *)
(* available in any order, and the far side consumes them in sequence order, *)
(* each exactly once, until it stops.                                        *)
EXTENDS Naturals, Sequences

CONSTANT Seqs          \* sequence numbers a payload may carry

VARIABLES available,   \* payloads the stream has been given
          consumed,    \* payloads handed to the client, in order
          open         \* the client side still takes payloads

Init == available = {} /\ consumed = <<>> /\ open = TRUE

Offer(s) == available' = available \cup {s} /\ UNCHANGED <<consumed, open>>

Consume ==
    /\ open
    /\ Len(consumed) \in available
    /\ consumed' = Append(consumed, Len(consumed))
    /\ UNCHANGED <<available, open>>

Stop == open' = FALSE /\ UNCHANGED <<available, consumed>>

Next == (\E s \in Seqs : Offer(s)) \/ Consume \/ Stop

Spec == Init /\ [][Next]_<<available, consumed, open>>
=============================================================================
