---------------------------- MODULE MCXgressFlow ----------------------------
(* Payloads of one byte.                                                     *)
EXTENDS XgressFlow

MCDataLen == [s \in Seqs |-> 1]
MCKind == [s \in Seqs |-> "data"]
=============================================================================
