--------------------------- MODULE MCXgressClose ---------------------------
(* Environments of a circuit that together contain every way it may end: a   *)
(* client closes it, one half-closes, or a channel to a router fails, each   *)
(* with data on the way; the window is one that a payload shuts, and for the *)
(* half-close one that lets the EOF follow unacknowledged data.              *)
EXTENDS XgressClose

One == {"initiator"}

OneCloses == [writers |-> One, halfClosers |-> {}, closers |-> One, failing |-> {}, window |-> 0]
OneHalfCloses == [writers |-> One, halfClosers |-> One, closers |-> {}, failing |-> {}, window |-> 1]
ChannelFails == [writers |-> One, halfClosers |-> {}, closers |-> {}, failing |-> One, window |-> 0]

CloseEnvs == {OneCloses, OneHalfCloses, ChannelFails}
=============================================================================
