--------------------------- MODULE ConnMuxProofs ---------------------------
(***************************************************************************)
(* Theorems about ConnMux, for any number of connections and any range of  *)
(* ids.                                                                    *)
(*                                                                         *)
(* IdsDistinct speaks of the ids connections hold.  It is inductive only   *)
(* with what is true of the ids being looked up inside GetNextId: they are *)
(* no larger than the counter (LookedUpBelow), and no other connection     *)
(* looks up or holds the same one (LookedUpDistinct), until the counter is *)
(* reset for the first time.                                               *)
(***************************************************************************)
EXTENDS ConnMux, TLAPS

Looking(c) == At(c, "look")

\* The ids that came from the counter.
Counted(c) == Looking(c) \/ (Holds(c) /\ conn[c].id < MaxId)

Exclusive == ~wrapped /\ ~RouterReuses

LookedUpBelow ==
    Exclusive => \A c \in Conns : Counted(c) => conn[c].id <= nextId

LookedUpDistinct ==
    Exclusive => \A c, d \in Conns :
        Looking(c) /\ Counted(d) /\ conn[c].id = conn[d].id => c = d

\* What Close has still to notify was not notified, and nothing is before the
\* sinks are listed.
NotifiedLater ==
    /\ \A c \in Conns : c \in items \/ closer # "notify" => notified[c] = 0
    /\ closer # "notify" => items = {}

OpenIsRegistered == Exclusive => OpenStaysRegistered

IInv ==
    /\ TypeOK
    /\ LookedUpBelow
    /\ LookedUpDistinct
    /\ IdsDistinct
    /\ RoutesToOwner
    /\ OpenIsRegistered
    /\ NotifiedLater
    /\ NotifiedOnce

-----------------------------------------------------------------------------
LEMMA InitIInv == Init => IInv
<1> SUFFICES ASSUME Init PROVE IInv
  OBVIOUS
<1> USE MuxAssumption DEF Init, At, NoId
<1>1. TypeOK
  <2>1. nextId \in Nat /\ sinks \subseteq Nat \X Conns
    OBVIOUS
  <2>2. conn \in [Conns -> [pc : Steps, id : Nat]]
    BY DEF Steps
  <2>3. closed = (closer # "idle")
    BY Zenon
  <2> QED
    BY <2>1, <2>2, <2>3 DEF TypeOK
<1>2. LookedUpBelow /\ LookedUpDistinct
  BY DEF LookedUpBelow, LookedUpDistinct, Looking, Counted, Holds
<1>3. IdsDistinct
  BY DEF IdsDistinct, Holds
<1>4. RoutesToOwner /\ OpenIsRegistered
  BY DEF RoutesToOwner, OpenIsRegistered, OpenStaysRegistered
<1>5. NotifiedLater /\ NotifiedOnce
  BY DEF NotifiedLater, NotifiedOnce
<1> QED
  BY <1>1, <1>2, <1>3, <1>4, <1>5 DEF IInv

\* Every action of a connection keeps the type of the state.
LEMMA ConnStepTypeOK ==
    ASSUME TypeOK, NEW c \in Conns, ConnStep(c)
    PROVE  TypeOK'
<1> USE MuxAssumption DEF TypeOK, At, Goto, Steps, closeVars, NoId
<1>1. CASE StartGetNextId(c)
  BY <1>1 DEF StartGetNextId
<1>2. CASE UseRouterProvidedId(c)
  BY <1>2 DEF UseRouterProvidedId
<1>3. CASE AddUint32(c)
  BY <1>3 DEF AddUint32
<1>4. CASE Lookup(c)
  BY <1>4 DEF Lookup
<1>5. CASE StoreUint32(c)
  BY <1>5 DEF StoreUint32
<1>6. CASE AddCheckClosed(c)
  BY <1>6 DEF AddCheckClosed
<1>7. CASE AddSetIfAbsent(c)
  BY <1>7 DEF AddSetIfAbsent, InUse
<1>8. CASE CloseConn(c)
  BY <1>8 DEF CloseConn, Closing
<1>9. CASE Remove(c)
  BY <1>9 DEF Remove
<1> QED
  BY <1>1, <1>2, <1>3, <1>4, <1>5, <1>6, <1>7, <1>8, <1>9 DEF ConnStep, Getting

\* The mux's Close keeps the type of the state.
LEMMA CloseTypeOK ==
    ASSUME TypeOK, MuxClose \/ Items \/ HandleMuxClose
    PROVE  TypeOK'
<1>1. CASE MuxClose
  BY <1>1 DEF MuxClose, TypeOK, Registered
<1>2. CASE Items
  BY <1>2 DEF Items, TypeOK, Registered
<1>3. CASE HandleMuxClose
  BY <1>3 DEF HandleMuxClose, TypeOK, Closing, Steps
<1> QED
  BY <1>1, <1>2, <1>3

\* The ids: what GetNextId looks up, and what connections hold.
Ids == LookedUpBelow /\ LookedUpDistinct /\ IdsDistinct

\* A step after which the connections have their ids, and nobody looks up or
\* holds one who did not before.
LEMMA IdsShrink ==
    ASSUME Ids, nextId' = nextId, wrapped' = wrapped,
           \A d \in Conns : conn'[d].id = conn[d].id,
           \A d \in Conns : Holds(d)' => Holds(d),
           \A d \in Conns : Looking(d)' => Looking(d)
    PROVE  Ids'
<1>1. \A d \in Conns : Counted(d)' => Counted(d)
  BY DEF Counted
<1>2. LookedUpBelow'
  BY <1>1 DEF Ids, LookedUpBelow, Exclusive
<1>3. LookedUpDistinct'
  BY <1>1 DEF Ids, LookedUpDistinct, Exclusive
<1>4. IdsDistinct'
  BY DEF Ids, IdsDistinct
<1> QED
  BY <1>2, <1>3, <1>4 DEF Ids

LEMMA ConnStepIds ==
    ASSUME TypeOK, Ids, NEW c \in Conns, ConnStep(c)
    PROVE  Ids'
<1> USE DEF closeVars, At, Goto
<1>1. CASE StartGetNextId(c)
  <2>1. \A d \in Conns : /\ conn'[d].id = conn[d].id
                         /\ Holds(d)' => Holds(d)
                         /\ Looking(d)' => Looking(d)
    BY <1>1 DEF StartGetNextId, TypeOK, Holds, Looking
  <2> QED
    BY <1>1, <2>1, IdsShrink DEF StartGetNextId
<1>2. CASE UseRouterProvidedId(c)
  BY <1>2, MuxAssumption
     DEF UseRouterProvidedId, TypeOK, Ids, LookedUpBelow, LookedUpDistinct, IdsDistinct,
         Exclusive, Looking, Counted, Holds
<1>3. CASE AddUint32(c)
  BY <1>3 DEF AddUint32, TypeOK, Ids, LookedUpBelow, LookedUpDistinct, IdsDistinct,
              Exclusive, Looking, Counted, Holds
<1>4. CASE Lookup(c)
  BY <1>4, MuxAssumption
     DEF Lookup, TypeOK, Ids, LookedUpBelow, LookedUpDistinct, IdsDistinct,
         Exclusive, Looking, Counted, Holds
<1>5. CASE StoreUint32(c)
  BY <1>5 DEF StoreUint32, Ids, LookedUpBelow, LookedUpDistinct, IdsDistinct, Exclusive
<1>6. CASE AddCheckClosed(c)
  <2>1. \A d \in Conns : /\ conn'[d].id = conn[d].id
                         /\ Holds(d)' => Holds(d)
                         /\ Looking(d)' => Looking(d)
    BY <1>6 DEF AddCheckClosed, TypeOK, Holds, Looking
  <2> QED
    BY <1>6, <2>1, IdsShrink DEF AddCheckClosed
<1>7. CASE AddSetIfAbsent(c)
  <2>1. \A d \in Conns : /\ conn'[d].id = conn[d].id
                         /\ Holds(d)' => Holds(d)
                         /\ Looking(d)' => Looking(d)
    BY <1>7 DEF AddSetIfAbsent, TypeOK, Holds, Looking
  <2> QED
    BY <1>7, <2>1, IdsShrink DEF AddSetIfAbsent
<1>8. CASE CloseConn(c)
  <2>1. \A d \in Conns : /\ conn'[d].id = conn[d].id
                         /\ Holds(d)' => Holds(d)
                         /\ Looking(d)' => Looking(d)
    BY <1>8 DEF CloseConn, Closing, TypeOK, Holds, Looking
  <2> QED
    BY <1>8, <2>1, IdsShrink DEF CloseConn
<1>9. CASE Remove(c)
  <2>1. \A d \in Conns : /\ conn'[d].id = conn[d].id
                         /\ Holds(d)' => Holds(d)
                         /\ Looking(d)' => Looking(d)
    BY <1>9 DEF Remove, TypeOK, Holds, Looking
  <2> QED
    BY <1>9, <2>1, IdsShrink DEF Remove
<1> QED
  BY <1>1, <1>2, <1>3, <1>4, <1>5, <1>6, <1>7, <1>8, <1>9 DEF ConnStep, Getting

LEMMA CloseIds ==
    ASSUME TypeOK, Ids, MuxClose \/ Items \/ HandleMuxClose
    PROVE  Ids'
<1>1. \A d \in Conns : /\ conn'[d].id = conn[d].id
                       /\ Holds(d)' => Holds(d)
                       /\ Looking(d)' => Looking(d)
  <2>1. CASE MuxClose \/ Items
    BY <2>1 DEF MuxClose, Items, Holds, Looking, At
  <2>2. CASE HandleMuxClose
    BY <2>2 DEF HandleMuxClose, Closing, TypeOK, Holds, Looking, At
  <2> QED
    BY <2>1, <2>2
<1>2. nextId' = nextId /\ wrapped' = wrapped
  BY DEF MuxClose, Items, HandleMuxClose
<1> QED
  BY <1>1, <1>2, IdsShrink

\* The table.  Remove of c deletes the entry of c's id: by IdsDistinct no other
\* open connection has it.
Table == RoutesToOwner /\ OpenIsRegistered

LEMMA ConnStepTable ==
    ASSUME TypeOK, IdsDistinct, Table, NEW c \in Conns, ConnStep(c)
    PROVE  Table'
<1> USE DEF TypeOK, Table, RoutesToOwner, OpenIsRegistered, OpenStaysRegistered,
            Exclusive, At, Goto, closeVars
<1>1. CASE StartGetNextId(c)
  BY <1>1 DEF StartGetNextId
<1>2. CASE UseRouterProvidedId(c)
  BY <1>2 DEF UseRouterProvidedId
<1>3. CASE AddUint32(c)
  BY <1>3 DEF AddUint32
<1>4. CASE Lookup(c)
  BY <1>4 DEF Lookup
<1>5. CASE StoreUint32(c)
  BY <1>5 DEF StoreUint32
<1>6. CASE AddCheckClosed(c)
  BY <1>6 DEF AddCheckClosed
<1>7. CASE AddSetIfAbsent(c)
  BY <1>7 DEF AddSetIfAbsent
<1>8. CASE CloseConn(c)
  BY <1>8 DEF CloseConn, Closing
<1>9. CASE Remove(c)
  BY <1>9 DEF Remove, IdsDistinct, Holds
<1> QED
  BY <1>1, <1>2, <1>3, <1>4, <1>5, <1>6, <1>7, <1>8, <1>9 DEF ConnStep, Getting

LEMMA CloseTable ==
    ASSUME TypeOK, Table, MuxClose \/ Items \/ HandleMuxClose
    PROVE  Table'
<1> USE DEF TypeOK, Table, RoutesToOwner, OpenIsRegistered, OpenStaysRegistered,
            Exclusive, At
<1>1. CASE MuxClose \/ Items
  BY <1>1 DEF MuxClose, Items
<1>2. CASE HandleMuxClose
  BY <1>2 DEF HandleMuxClose, Closing
<1> QED
  BY <1>1, <1>2

\* The notifications.
LEMMA NextNotified ==
    ASSUME TypeOK, NotifiedLater, NotifiedOnce, Next
    PROVE  NotifiedLater' /\ NotifiedOnce'
<1> USE DEF TypeOK, NotifiedLater, NotifiedOnce
<1>1. ASSUME NEW c \in Conns, ConnStep(c)
      PROVE  UNCHANGED closeVars
  BY <1>1 DEF ConnStep, Getting, StartGetNextId, UseRouterProvidedId, AddUint32, Lookup,
              StoreUint32, AddCheckClosed, AddSetIfAbsent, CloseConn, Remove
<1>2. CASE \E c \in Conns : ConnStep(c)
  BY <1>1, <1>2 DEF closeVars
<1>3. CASE MuxClose
  BY <1>3 DEF MuxClose
<1>4. CASE Items
  BY <1>4 DEF Items, Registered
<1>5. CASE HandleMuxClose
  BY <1>5 DEF HandleMuxClose
<1> QED
  BY <1>2, <1>3, <1>4, <1>5 DEF Next

LEMMA NextIInv == IInv /\ [Next]_vars => IInv'
<1> SUFFICES ASSUME IInv, [Next]_vars PROVE IInv'
  OBVIOUS
<1>1. CASE Next
  <2>1. TypeOK'
    BY <1>1, ConnStepTypeOK, CloseTypeOK DEF IInv, Next
  <2>2. Ids'
    BY <1>1, ConnStepIds, CloseIds DEF IInv, Ids, Next
  <2>3. Table'
    BY <1>1, ConnStepTable, CloseTable DEF IInv, Table, Next
  <2>4. NotifiedLater' /\ NotifiedOnce'
    BY <1>1, NextNotified DEF IInv
  <2> QED
    BY <2>1, <2>2, <2>3, <2>4 DEF IInv, Ids, Table
<1>2. CASE UNCHANGED vars
  BY <1>2 DEF IInv, vars, TypeOK, LookedUpBelow, LookedUpDistinct, IdsDistinct,
              RoutesToOwner, OpenIsRegistered, OpenStaysRegistered, NotifiedLater,
              NotifiedOnce, Exclusive, Looking, Counted, Holds, At
<1> QED
  BY <1>1, <1>2

\* IInv is an inductive invariant of the mux and its users.
THEOREM Invariance == Spec => []IInv
BY InitIInv, NextIInv, PTL DEF Spec

-----------------------------------------------------------------------------
\* The mux and its users keep their types, the map's keys are unique, and
\* closed is set exactly when Close was called, for any number of goroutines.
THEOREM TypeCorrect == Spec => []TypeOK
BY Invariance, PTL DEF IInv

\* Until the counter first wraps, and with a router that provides unused ids,
\* no two connections hold the same id, for any number of goroutines in
\* GetNextId and any range of ids.
THEOREM IdsAreDistinct == Spec => []IdsDistinct
BY Invariance, PTL DEF IInv

\* HandleReceive finds only connections that are registered under their own id
\* and have not removed themselves.
THEOREM RoutesOnlyToOwner == Spec => []RoutesToOwner
BY Invariance, PTL DEF IInv

\* While ids are exclusive, a connection stays routable until its own close:
\* removing another connection, or failing to add one, never unregisters it.
THEOREM StaysRegistered == Spec => [](Exclusive => OpenStaysRegistered)
BY Invariance, PTL DEF IInv, OpenIsRegistered

\* Close notifies a connection at most once.
THEOREM NotifiesOnce == Spec => []NotifiedOnce
BY Invariance, PTL DEF IInv

=============================================================================
