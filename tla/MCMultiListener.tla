-------------------------- MODULE MCMultiListener --------------------------
(***************************************************************************)
(* MultiListener for TLC.  Routers either bind two hosting connections or  *)
(* send dial requests to one: what a second one adds is that Close walks   *)
(* past it and shares the lock with it.  The first to bind is h1, and only *)
(* its channel closes.  Only Listen, Dial and ChannelClosed are restricted *)
(* by this, which no fairness condition speaks of.                         *)
(***************************************************************************)
EXTENDS MultiListener

CONSTANTS h1, h2

MCHosts == {h1, h2}

TwoOrDials ==
    /\ adding[h2] # "none" => adding[h1] # "none"
    /\ chan[h2].mux = "open"
    /\ \/ Cardinality({h \in Hosts : adding[h] # "none"}) <= 1
       \/ \A k \in Clients : client[k].pc = "none"

MCSpec == Init /\ [][Next /\ TwoOrDials']_vars /\ Fairness

=============================================================================
