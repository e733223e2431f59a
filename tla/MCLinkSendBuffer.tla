-------------------------- MODULE MCLinkSendBuffer --------------------------
(* Two writers with deadlines, and payloads larger than the window, so that  *)
(* three of them are more than the window and its overrun.                   *)
EXTENDS LinkSendBuffer, TLC

CONSTANTS w1, w2

MCDataLen == [s \in 0..MaxSeq |-> 3]
MCWriters == {w1, w2}
MCRecvSizes == {0, 3}
WriterSymmetry == Permutations(MCWriters)
=============================================================================
