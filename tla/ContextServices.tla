-------------------------- MODULE ContextServices --------------------------
(***************************************************************************)
(* The services a ContextImpl (zt/zt.go) knows: the refresh loop asks the  *)
(* controller whether its list has changed and reads it page by page,      *)
(* while the application forces a refresh or refreshes one service, and    *)
(* the list changes at any time.  A service is a name and the id it was    *)
(* created with; the intercept made from its configuration follows it.     *)
(***************************************************************************)
EXTENDS Integers, Sequences, FiniteSets

CONSTANTS Names,        \* names of services
          PageLimit,    \* services in a page of the controller's list
          MaxChanges,   \* bound: changes of the list
          MaxSilences   \* bound: requests that are not answered

VARIABLES
    list,       \* the controller's services, in the order it lists them
    changed,    \* lastChangeAt: when they last changed
    services,   \* context.services: by name, the id and configuration
    intercepts, \* context.intercepts: by name, the id of the service
    last,       \* lastServiceUpdate; -1 for nil
    seen,       \* what the application has made of the service events
    at,         \* at[g]: the refresh goroutine g is in
    silences,   \* requests that were not answered
    overlapped  \* history: two refreshes ran at the same time

servicesVars == <<list, changed, services, intercepts, last, seen, at, silences, overlapped>>

\* The refresh loop, and a goroutine of the application.
Refreshers == {"loop", "app"}
NoService == [id |-> 0, intercept |-> FALSE]
Away == [pc |-> "idle", stamp |-> -1, offset |-> 0, got |-> {}, single |-> "none"]

\* The ids of services that are there before any change.
InitialId == Cardinality(Names)

ServicesInit ==
    /\ \/ list = <<>>
       \/ \E f \in [1..InitialId -> Names] :
            /\ \A i, j \in 1..InitialId : f[i] = f[j] => i = j
            /\ list = [i \in 1..InitialId |-> [name |-> f[i], id |-> i, intercept |-> TRUE]]
    /\ changed = 0
    /\ services = [n \in Names |-> NoService] /\ intercepts = [n \in Names |-> 0]
    /\ seen = [n \in Names |-> 0]
    /\ last = -1 /\ at = [g \in Refreshers |-> Away]
    /\ silences = 0 /\ overlapped = FALSE

Listed == {list[i] : i \in DOMAIN list}
Unanswered == silences < MaxSilences /\ silences' = silences + 1

-----------------------------------------------------------------------------
(* The controller.                                                           *)

\* A service is created, deleted, created anew under its name, or given another
\* configuration.
ListChanges(n) ==
    LET i == CHOOSE j \in DOMAIN list : list[j].name = n
        others == SelectSeq(list, LAMBDA s : s.name # n) IN
    /\ changed < MaxChanges /\ changed' = changed + 1
    /\ IF \E s \in Listed : s.name = n
       THEN \/ list' = others
            \/ list' = Append(others, [list[i] EXCEPT !.id = InitialId + changed'])
            \/ ~list[i].intercept /\ list' = [list EXCEPT ![i].intercept = TRUE]
       ELSE \E b \in BOOLEAN : list' = Append(list, [name |-> n, id |-> InitialId + changed', intercept |-> b])
    /\ UNCHANGED <<services, intercepts, last, seen, at, silences, overlapped>>

-----------------------------------------------------------------------------
(* refreshServices.                                                          *)

Begins(g, to) ==
    /\ at[g] = Away
    /\ at' = [at EXCEPT ![g] = to]
    /\ overlapped' = (overlapped \/ \E h \in Refreshers \ {g} : at[h] # Away)

\* A tick of the refresh loop, or its retry of a refresh that was not answered:
\* IsServiceListUpdateAvailable. When the controller does not answer, the list is
\* read, and the time of its last change is not known.
CheckUpdates ==
    /\ \/ /\ last # changed
          /\ Begins("loop", [Away EXCEPT !.pc = "page", !.stamp = changed])
          /\ UNCHANGED silences
       \/ Unanswered /\ Begins("loop", [Away EXCEPT !.pc = "page"])
    /\ UNCHANGED <<list, changed, services, intercepts, last, seen>>

\* RefreshServices does not ask.
RefreshServices ==
    /\ Begins("app", [Away EXCEPT !.pc = "page"])
    /\ UNCHANGED <<list, changed, services, intercepts, last, seen, silences>>

\* RefreshService asks for one service by its name.
RefreshService(n) ==
    /\ Begins("app", [Away EXCEPT !.pc = "deletes", !.single = n,
                                  !.got = {s \in Listed : s.name = n}])
    /\ UNCHANGED <<list, changed, services, intercepts, last, seen, silences>>

\* GetServices: one page per request, up to the total of that moment.
GetPage(g) ==
    LET end == IF at[g].offset + PageLimit < Len(list) THEN at[g].offset + PageLimit ELSE Len(list)
        page == {list[i] : i \in (at[g].offset + 1)..end} IN
    /\ at[g].pc = "page"
    /\ \/ /\ at' = [at EXCEPT ![g].got = @ \cup page, ![g].offset = @ + PageLimit,
                              ![g].pc = IF @ = "page" /\ at[g].offset + PageLimit >= Len(list)
                                        THEN "store" ELSE @]
          /\ UNCHANGED silences
       \/ Unanswered /\ at' = [at EXCEPT ![g] = Away]
    /\ UNCHANGED <<list, changed, services, intercepts, last, seen, overlapped>>


\* lastServiceUpdate is the time from before the list was read.
StoreLastUpdate(g) ==
    /\ at[g].pc = "store"
    /\ last' = at[g].stamp
    /\ at' = [at EXCEPT ![g].pc = "deletes", ![g].stamp = -1, ![g].offset = 0]
    /\ UNCHANGED <<list, changed, services, intercepts, seen, silences, overlapped>>

\* processServiceUpdates removes the services whose id is not listed, by their
\* names; processSingleServiceUpdate the one that was not found.
Deletes(g) ==
    LET ids == {s.id : s \in at[g].got}
        gone == IF at[g].single = "none"
                THEN {n \in Names : services[n] # NoService /\ services[n].id \notin ids}
                ELSE {n \in Names : n = at[g].single /\ at[g].got = {}} IN
    /\ at[g].pc = "deletes"
    /\ services' = [n \in Names |-> IF n \in gone THEN NoService ELSE services[n]]
    /\ intercepts' = [n \in Names |-> IF n \in gone THEN 0 ELSE intercepts[n]]
    /\ seen' = [n \in Names |-> IF n \in gone THEN 0 ELSE seen[n]]
    /\ at' = [at EXCEPT ![g].pc = "adds"]
    /\ UNCHANGED <<list, changed, last, silences, overlapped>>

\* processServiceAddOrUpdated, for every service of the answer. Of two entries
\* with one name the last counts; a service without an intercept configuration
\* leaves the intercept there is.
AddsOrUpdates(g) ==
    LET named(n) == {s \in at[g].got : s.name = n}
        latest(n) == CHOOSE s \in named(n) : \A t \in named(n) : t.id <= s.id
        new == [n \in Names |-> IF named(n) = {} THEN services[n]
                                ELSE [id |-> latest(n).id, intercept |-> latest(n).intercept]] IN
    /\ at[g].pc = "adds"
    /\ services' = new
    /\ intercepts' = [n \in Names |-> IF named(n) # {} /\ new[n].intercept
                                      THEN new[n].id ELSE intercepts[n]]
    /\ seen' = [n \in Names |-> IF new[n] # services[n] THEN new[n].id ELSE seen[n]]
    /\ at' = [at EXCEPT ![g] = Away]
    /\ UNCHANGED <<list, changed, last, silences, overlapped>>

-----------------------------------------------------------------------------
Refresh(g) == GetPage(g) \/ StoreLastUpdate(g) \/ Deletes(g) \/ AddsOrUpdates(g)

ServicesNext ==
    \/ \E n \in Names : ListChanges(n) \/ RefreshService(n)
    \/ CheckUpdates \/ RefreshServices
    \/ \E g \in Refreshers : Refresh(g)

\* The refresh loop ticks, and refreshes end.
ServicesFairness ==
    /\ WF_servicesVars(CheckUpdates)
    /\ \A g \in Refreshers : WF_servicesVars(Refresh(g))

-----------------------------------------------------------------------------
(* Properties.                                                               *)

\* What the context says of every name is what the controller's list says.
Agrees ==
    /\ \A n \in Names :
         services[n].id = IF \E s \in Listed : s.name = n
                          THEN (CHOOSE s \in Listed : s.name = n).id ELSE 0
    /\ \A n \in Names : seen[n] = services[n].id
    /\ \A n \in Names : services[n].intercept => intercepts[n] = services[n].id

=============================================================================
