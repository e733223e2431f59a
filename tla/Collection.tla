---------------------------- MODULE Collection ----------------------------
(***************************************************************************)
(* Contexts and the collections that hold them: NewContextWithOpts         *)
(* (zt/contexts.go), CtxCollection (zt/collection.go) and LoadContext      *)
(* (zt/default_collection.go), called from several goroutines.  Contexts   *)
(* get numbers for ids; the application may give them names of its own.    *)
(***************************************************************************)
EXTENDS Naturals, Sequences, Functions

CONSTANTS Loaders,      \* goroutines of the application
          Configs,      \* what a file may hold: [ztAPI, ztAPIs, id, credentials]
          AppIds,       \* ids the application chooses
          MaxContexts   \* bound on the contexts created

VARIABLES made,       \* the contexts created so far, by number: a sequence of records
          contexts,   \* CtxCollection.contexts: id to context
          loader      \* per goroutine: where it is, its context and how it was made

collectionVars == <<made, contexts, loader>>

Idle == [pc |-> "idle", ctx |-> 0, load |-> FALSE]

CollectionInit ==
    /\ made = <<>> /\ contexts = <<>>
    /\ loader = [l \in Loaders |-> Idle]

At(l, pc) == loader[l].pc = pc
Goto(l, pc) == loader' = [loader EXCEPT ![l].pc = pc]
Return(l) == loader' = [loader EXCEPT ![l] = Idle]

\* The URLs are parsed from ZtAPI, once for each entry of ZtAPIs.
ApiUrls(cfg) ==
    LET apiStrs == IF Len(cfg.ztAPIs) > 0 THEN cfg.ztAPIs ELSE <<cfg.ztAPI>>
    IN [i \in 1..Len(apiStrs) |-> cfg.ztAPI]

MaxDefaultConnections(cfg) == IF cfg.maxDefault < 1 THEN 1 ELSE cfg.maxDefault

CredentialsOf(cfg) == IF cfg.credentials = "" THEN cfg.id ELSE cfg.credentials

NewContextWithOpts(cfg, id) ==
    [id |-> id, cfg |-> cfg, apiUrls |-> ApiUrls(cfg), credentials |-> CredentialsOf(cfg),
     connections |-> MaxDefaultConnections(cfg), open |-> TRUE, closedByApp |-> FALSE, removed |-> FALSE]

\* NewContextFromFile of a collection, as such or on behalf of LoadContext.
NewContextFromFile(l, load) ==
    /\ At(l, "idle") /\ Len(made) < MaxContexts
    /\ \E cfg \in Configs : made' = Append(made, NewContextWithOpts(cfg, Len(made) + 1))
    /\ loader' = [loader EXCEPT ![l] = [pc |-> "add", ctx |-> Len(made) + 1, load |-> load]]
    /\ UNCHANGED contexts

\* Add: another context of the same id is closed and replaced.  (m is made, with
\* the change the caller makes first.)
Add(m, c) ==
    LET id == m[c].id
        existing == IF id \in DOMAIN contexts THEN {contexts[id]} \ {c} ELSE {}
    IN /\ contexts' = [x \in DOMAIN contexts \cup {id} |-> IF x = id THEN c ELSE contexts[x]]
       /\ made' = [i \in DOMAIN m |-> IF i \in existing THEN [m[i] EXCEPT !.open = FALSE] ELSE m[i]]

Collect(l) ==
    /\ At(l, "add") /\ Add(made, loader[l].ctx)
    /\ IF loader[l].load THEN Goto(l, "authenticate") ELSE Return(l)

Remove(id) == contexts' = Restrict(contexts, DOMAIN contexts \ {id})

\* LoadContext goes on to authenticate.
LoadAuthenticates(l) ==
    /\ At(l, "authenticate")
    /\ Return(l) \/ Goto(l, "remove")
    /\ UNCHANGED <<made, contexts>>

\* Mutant: a context that does not authenticate is only closed.
LoadSkipsRemove(l) ==
    /\ At(l, "remove") /\ Goto(l, "close") /\ UNCHANGED <<made, contexts>>

LoadRemoves(l) ==
    /\ At(l, "remove") /\ Remove(made[loader[l].ctx].id)
    /\ Goto(l, "close") /\ UNCHANGED made

Close(c) == made' = [made EXCEPT ![c].open = FALSE]

LoadCloses(l) ==
    /\ At(l, "close") /\ Close(loader[l].ctx)
    /\ Return(l) /\ UNCHANGED contexts

InHand(c) == \A l \in Loaders : loader[l].ctx # c

\* The application names an open context it took out of the collection and adds
\* it again.
SetIdAndAdd(c, id) ==
    /\ c \in DOMAIN made /\ InHand(c) /\ made[c].removed /\ made[c].open
    /\ Add([made EXCEPT ![c].id = id, ![c].removed = FALSE], c)
    /\ UNCHANGED loader

RemoveById(c) ==
    /\ c \in DOMAIN made /\ InHand(c) /\ ~made[c].removed
    /\ Remove(made[c].id)
    /\ made' = [i \in DOMAIN made |->
                  IF made[i].id = made[c].id THEN [made[i] EXCEPT !.removed = TRUE] ELSE made[i]]
    /\ UNCHANGED loader

AppCloses(c) ==
    /\ c \in DOMAIN made /\ InHand(c) /\ ~made[c].closedByApp
    /\ made' = [made EXCEPT ![c].open = FALSE, ![c].closedByApp = TRUE]
    /\ UNCHANGED <<contexts, loader>>

CollectionNext ==
    \/ \E l \in Loaders :
         \/ \E load \in BOOLEAN : NewContextFromFile(l, load)
         \/ Collect(l) \/ LoadAuthenticates(l) \/ LoadRemoves(l) \/ LoadCloses(l)
    \/ \E c \in 1..MaxContexts :
         \/ \E id \in AppIds : SetIdAndAdd(c, id)
         \/ RemoveById(c)
         \/ AppCloses(c)

---------------------------------------------------------------------------

\* The collection and the contexts agree whatever the goroutines do: a context
\* in it is open unless the application closed it, and a context that was added,
\* is open and was not taken out is the one in it under its id; one replaced by
\* another of its id, or that LoadContext could not authenticate, is closed.
CollectionHoldsOpen ==
    /\ \A id \in DOMAIN contexts : made[contexts[id]].open \/ made[contexts[id]].closedByApp
    /\ \A c \in DOMAIN made :
         InHand(c) /\ made[c].open /\ ~made[c].removed =>
             made[c].id \in DOMAIN contexts /\ contexts[made[c].id] = c

===========================================================================
