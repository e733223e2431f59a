------------------------ MODULE MCLinkReceiveBuffer ------------------------
(* Small instances of LinkReceiveBuffer: a circuit start, a payload in two   *)
(* chunks, a plain payload and the end of the circuit.                       *)
EXTENDS LinkReceiveBuffer, TLC

MCDataLen == 0 :> 0 @@ 1 :> 2 @@ 2 :> 1 @@ 3 :> 2 @@ 4 :> 1 @@ 5 :> 0
MCKind == 0 :> "start" @@ 1 :> "part" @@ 2 :> "data" @@ 3 :> "data" @@ 4 :> "data" @@ 5 :> "end"
=============================================================================
