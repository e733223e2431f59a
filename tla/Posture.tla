------------------------------ MODULE Posture ------------------------------
(***************************************************************************)
(* The posture cache (zt/edge/posture/cache.go) and its MultiSubmitter:    *)
(* the device's state is evaluated every ten seconds and on each dial and  *)
(* bind, what changed since the last evaluation is submitted to the        *)
(* controller or to the routers, and a router that connects is sent the    *)
(* last responses.  An evaluation may ask the user for a TOTP code and     *)
(* waits for it while it holds the cache's lock.                           *)
(*                                                                         *)
(* A response is the pair of its type and the value the device had.  MAC   *)
(* addresses are treated as the domain is and have no type of their own.   *)
(***************************************************************************)
EXTENDS Integers, FiniteSets, FiniteSetsExt, SequencesExt, Folds

CONSTANTS
    Timeouts,    \* the sequences of MFA query timeouts a service may carry
    MaxChanges,  \* bound: changes of the device
    MaxQueries,  \* bound: changes of the active services
    MaxTokens,   \* bound: TOTP tokens issued
    MaxLosses,   \* bound: submissions that fail
    MaxConnects  \* bound: router connections opened

VARIABLES
    device,    \* what the providers read now
    active,    \* the query types of the active dial and bind services
    timeouts,  \* the timeouts of the MFA queries, in the order of the services
    listens,   \* a listener for EventMfaTotpCode is registered
    current,   \* currentData
    previous,  \* the TOTP token of previousData, the only part that is read
    evaluating, \* the goroutine that holds the cache's lock
    issued,    \* the TOTP tokens issued so far
    doSingle,  \* doSingleSubmissions
    session,   \* the type of the API session
    oldCtrl,   \* the controller answers 404 to the bulk endpoint
    routers,   \* the open router connections
    initializing, \* connectEdgeRouter's call of InitializePostureOnEdgeRouter
    view,      \* what each destination was told last
    missed,    \* history: the <<destination, type>> that nothing will tell
    budget     \* what is left of the bounds

postureVars == <<device, active, timeouts, listens, current, previous, evaluating,
                 issued, doSingle, session, oldCtrl, routers, initializing, view, missed, budget>>

Unknown == -1
NoTimeout == -1
Plain == {"domain", "os", "process"}
\* "r1" enforces posture checks itself, "r2" is an older router
Routers == {"r1", "r2"}
SupportsPosture == {"r1"}
Destinations == {"controller"} \union SupportsPosture

NewCacheData == [domain |-> 0, os |-> 0, process |-> Unknown, token |-> 0,
                 woken |-> FALSE, responses |-> {}]

Free == [pc |-> "free"]

PostureInit ==
    /\ device = [t \in Plain |-> 1]
    /\ active = {}
    /\ timeouts \in Timeouts
    /\ listens \in BOOLEAN
    /\ current = NewCacheData
    /\ previous = 0
    /\ evaluating = Free
    /\ issued = 0
    /\ doSingle = FALSE
    /\ session \in {"legacy", "oidc"}
    /\ oldCtrl \in BOOLEAN
    /\ routers = {}
    /\ initializing = [r \in SupportsPosture |-> [pc |-> "off"]]
    /\ view = [d \in Destinations |-> [t \in Plain |-> NewCacheData[t]]]
    /\ missed = {}
    /\ budget = [changes |-> MaxChanges, queries |-> MaxQueries,
                 losses |-> MaxLosses, connects |-> MaxConnects]

Spend(k) == /\ budget[k] > 0
            /\ budget' = [budget EXCEPT ![k] = @ - 1]

DeviceChanges ==
    /\ Spend("changes")
    /\ \E t \in Plain : device' = [device EXCEPT ![t] = 1 - @]
    /\ UNCHANGED <<active, timeouts, listens, current, previous, evaluating, issued, doSingle,
                   session, oldCtrl, routers, initializing, view, missed>>

(* The query types of a service; a process query activates OS as well. *)
addQueryInfoToMaps(q) == IF q = "process" THEN {"process", "os"} ELSE {q}

(* A dial or bind makes a service active, or GetActiveDialServices finds   *)
(* that it is no longer in the list.  The evaluation that follows a dial   *)
(* is Evaluate.                                                            *)
ActiveServicesChange ==
    /\ Spend("queries")
    /\ \E q \in Plain \union {"mfa"} :
          \/ active' = active \union addQueryInfoToMaps(q)
          \/ active' = active \ {q} /\ active # active'
    /\ UNCHANGED <<device, timeouts, listens, current, previous, evaluating, issued, doSingle,
                   session, oldCtrl, routers, initializing, view, missed>>

(* The lowest timeout so far after one more MFA query. *)
getLowestTotpTimeout(cur, timeout) ==
    IF cur = NoTimeout /\ timeout # NoTimeout THEN timeout
    ELSE IF timeout < cur THEN timeout ELSE cur

totpTimeout == IF "mfa" \notin active THEN NoTimeout
               ELSE FoldLeft(getLowestTotpTimeout, NoTimeout, timeouts)

(* Whether a new TOTP token is due: whether the last one is about to       *)
(* expire is left open.                                                    *)
totpTimeoutWindowEntered(due) ==
    totpTimeout # NoTimeout /\ (previous = 0 \/ due)

-----------------------------------------------------------------------------
(* Submission *)

(* The destinations MultiSubmitter sends to. *)
Recipients ==
    IF session = "legacy" THEN {"controller"}
    ELSE (routers \intersect SupportsPosture)
         \union (IF routers \ SupportsPosture # {} THEN {"controller"} ELSE {})

(* The controller of an OIDC session does not take TOTP responses. *)
filterToLegacyPostureResponses(d, responses) ==
    IF session = "oidc" /\ d = "controller" THEN {r \in responses : r[1] # "totp"} ELSE responses

(* SendPostureResponseBulk to a set of recipients, of which `failing' get  *)
(* nothing; `more' are the pairs that are missed for another reason.       *)
Submit(responses, failing, more) ==
    LET told == [d \in Recipients |-> {r \in filterToLegacyPostureResponses(d, responses) : r[1] \in Plain}]
        reached == Recipients \ failing
    IN  /\ view' = [d \in Destinations |-> [t \in Plain |->
                     IF d \in reached /\ \E r \in told[d] : r[1] = t
                     THEN (CHOOSE r \in told[d] : r[1] = t)[2] ELSE view[d][t]]]
        /\ missed' = ((missed \ {<<d, r[1]>> : d \in reached, r \in responses})
                       \union {<<d, r[1]>> : d \in failing, r \in responses}
                       \union more)

(* Which submissions fail: any within the bound, and always those to the   *)
(* bulk endpoint of a controller that does not have it.                    *)
Refuses == Recipients \intersect (IF oldCtrl THEN {"controller"} ELSE {})
Failing(failing) == /\ Refuses \subseteq failing
                    /\ Cardinality(failing \ Refuses) <= budget.losses

(* The first bulk submission that is answered 404 turns on single          *)
(* submissions, and the responses are sent again.  The error of several    *)
(* destinations is not recognised as a 404.  MultiSubmitter sends a single *)
(* response as a bulk of one, so that it meets the same answer.            *)
SendResponses(responses, failing, more) ==
    /\ Failing(failing)
    /\ Submit(responses, failing, more)
    /\ doSingle' = (doSingle \/ (oldCtrl /\ session = "legacy"))
    /\ budget' = [budget EXCEPT !.losses = @ - Cardinality(failing \ Refuses)]

-----------------------------------------------------------------------------
(* Evaluation *)

(* A comparison that looks at what the process did before without a look at *)
(* whether it was known at all.                                            *)
OnlyRunningProcesses(cur, candidate, types) ==
    LET changed == {t \in {"domain", "os"} \intersect types : cur[t] # candidate[t]}
        process == {t \in {"process"} : candidate[t] # Unknown /\ cur[t] = 1 - candidate[t]}
    IN  {<<t, candidate[t]>> : t \in changed \union process}

GetChangedResponses(cur, candidate, types) ==
    LET changed == {t \in {"domain", "os"} \intersect types : cur[t] # candidate[t]}
        process == {t \in {"process"} : candidate[t] # Unknown /\ cur[t] # candidate[t]}
        mfa == IF "mfa" \notin types THEN {}
               ELSE {t \in {"endpoint"} : cur.woken # candidate.woken}
                    \union {t \in {"totp"} : cur.token # candidate.token}
    IN  {<<t, candidate[t]>> : t \in changed \union process} \union {<<t, 0>> : t \in mfa}

Candidate == [NewCacheData EXCEPT !.domain = device.domain, !.os = device.os,
                !.process = IF "process" \in active THEN device.process ELSE Unknown,
                !.token = previous]

(* The end of Evaluate, which is handed the candidate and the types that   *)
(* were active when it began.  A value that is recorded while no query     *)
(* asks for it is not sent when one does.                                  *)
Conclude(candidate, types) ==
    LET responses == GetChangedResponses(current, candidate, types)
        unasked == {t \in {"domain", "os"} \ types : current[t] # candidate[t]}
    IN  /\ evaluating' = Free
        /\ IF responses = {}
           THEN UNCHANGED <<current, previous, doSingle, view, missed, budget>>
           ELSE /\ previous' = current.token
                /\ current' = [candidate EXCEPT !.responses = responses]
                /\ \E failing \in SUBSET Recipients :
                      SendResponses(responses, failing, Destinations \X unasked)

Evaluate ==
    /\ evaluating = Free
    /\ \E due \in BOOLEAN :
          \/ /\ ~totpTimeoutWindowEntered(due)
             /\ Conclude(Candidate, active)
          \/ /\ totpTimeoutWindowEntered(due)
             /\ evaluating' = [pc |-> "code", candidate |-> Candidate, types |-> active]
             /\ UNCHANGED <<current, previous, doSingle, view, missed, budget>>
    /\ UNCHANGED <<device, active, timeouts, listens, issued, session, oldCtrl, routers, initializing>>

(* GetTotpCode with a listener, which answers later: the code and then the *)
(* token are waited for.  Without a listener the error is sent on a        *)
(* channel that is not returned yet, and the send does not end.            *)
GetTotpCode ==
    /\ evaluating.pc = "code"
    /\ listens
    /\ evaluating' = [evaluating EXCEPT !.pc = "asking"]
    /\ UNCHANGED <<device, active, timeouts, listens, current, previous, issued, doSingle, session,
                   oldCtrl, routers, initializing, view, missed, budget>>

(* SingularTokenRequestor's result: a token, or an error or timeout, after *)
(* which the evaluation goes on with the old token.                        *)
TotpTokenArrives ==
    /\ evaluating.pc = "asking"
    /\ \/ /\ issued < MaxTokens
          /\ issued' = issued + 1
          /\ Conclude([evaluating.candidate EXCEPT !.token = issued'], evaluating.types)
       \/ /\ issued' = issued
          /\ Conclude(evaluating.candidate, evaluating.types)
    /\ UNCHANGED <<device, active, timeouts, listens, session, oldCtrl, routers, initializing>>

(* The events and AuthenticateMFA write to currentData without the lock. *)
onWake ==
    /\ Spend("changes")
    /\ current' = [current EXCEPT !.woken = TRUE]
    /\ UNCHANGED <<device, active, timeouts, listens, previous, evaluating, issued, doSingle,
                   session, oldCtrl, routers, initializing, view, missed>>

SetTotpToken ==
    /\ issued < MaxTokens
    /\ issued' = issued + 1
    /\ current' = [current EXCEPT !.token = issued']
    /\ UNCHANGED <<device, active, timeouts, listens, previous, evaluating, doSingle,
                   session, oldCtrl, routers, initializing, view, missed, budget>>

-----------------------------------------------------------------------------
(* Router connections *)

(* The destination that a router's connection adds. *)
Informs(r) == IF r \in SupportsPosture THEN r ELSE "controller"

(* A router connects: it knows nothing, and the controller, where it is    *)
(* told for the sake of an older router, may have been left out before.    *)
(* The routers play no part in a legacy session.                           *)
RouterConnects ==
    \E r \in Routers \ routers :
        /\ session = "oidc"
        /\ Spend("connects")
        /\ routers' = routers \union {r}
        /\ missed' = missed \union ({Informs(r)} \X Plain)
        /\ view' = IF r \in SupportsPosture
                   THEN [view EXCEPT ![r] = [t \in Plain |-> NewCacheData[t]]] ELSE view
        /\ initializing' = IF r \in SupportsPosture
                           THEN [initializing EXCEPT ![r] = [pc |-> "get"]] ELSE initializing
        /\ UNCHANGED <<device, active, timeouts, listens, current, previous, evaluating, issued,
                       doSingle, session, oldCtrl>>

RouterCloses ==
    \E r \in routers :
        /\ routers' = routers \ {r}
        /\ UNCHANGED <<device, active, timeouts, listens, current, previous, evaluating, issued,
                       doSingle, session, oldCtrl, initializing, view, missed, budget>>

(* InitializePostureOnEdgeRouter takes the last responses under the lock ... *)
GetAllResponses ==
    \E r \in SupportsPosture :
        /\ initializing[r].pc = "get"
        /\ evaluating = Free
        /\ initializing' = [initializing EXCEPT ![r] = [pc |-> "send", responses |-> current.responses]]
        /\ UNCHANGED <<device, active, timeouts, listens, current, previous, evaluating, issued,
                       doSingle, session, oldCtrl, routers, view, missed, budget>>

(* ... and sends them, to every recipient, when an evaluation may have     *)
(* sent newer ones in between: those are then overwritten by older ones.   *)
InitializePostureOnEdgeRouter ==
    \E r \in SupportsPosture, failing \in SUBSET Recipients :
        /\ initializing[r].pc = "send"
        /\ LET responses == initializing[r].responses
               stale == {p[1] : p \in {q \in responses : q[1] \in Plain /\ q[2] # current[q[1]]}}
           IN  /\ IF responses = {} THEN failing = {} ELSE Failing(failing)
               /\ Submit(responses, failing, Recipients \X stale)
               /\ budget' = [budget EXCEPT !.losses = @ - Cardinality(failing \ Refuses)]
        /\ initializing' = [initializing EXCEPT ![r] = [pc |-> "off"]]
        /\ UNCHANGED <<device, active, timeouts, listens, current, previous, evaluating, issued,
                       doSingle, session, oldCtrl, routers>>

EvaluationSteps == Evaluate \/ GetTotpCode \/ TotpTokenArrives
InitializationSteps == GetAllResponses \/ InitializePostureOnEdgeRouter

PostureNext ==
    \/ DeviceChanges \/ ActiveServicesChange \/ onWake \/ SetTotpToken
    \/ Evaluate \/ GetTotpCode \/ TotpTokenArrives
    \/ RouterConnects \/ RouterCloses \/ GetAllResponses \/ InitializePostureOnEdgeRouter

(* The ticker runs for as long as the context is open, and the timeouts of *)
(* SingularTokenRequestor end every wait for a code or a token.            *)
PostureFairness ==
    /\ WF_postureVars(EvaluationSteps)
    /\ WF_postureVars(InitializationSteps)

PostureSpec == PostureInit /\ [][PostureNext]_postureVars /\ PostureFairness

-----------------------------------------------------------------------------
(* Properties *)

Informed ==
    \A d \in Recipients, t \in active \intersect Plain :
        <<d, t>> \notin missed => view[d][t] = device[t]

Stuck == evaluating.pc = "code" /\ ~listens

(* What every recipient knows of the device becomes and stays what the     *)
(* device is, through changes of the device, the active services and the   *)
(* routers and through the waits for TOTP tokens: except for a value whose *)
(* submission failed, that was recorded before a query asked for it, that  *)
(* a router has not been told since it connected, or that an older one     *)
(* overwrote, until it changes again; and unless the cache is stuck in     *)
(* GetTotpCode (Cache.Evaluate, MultiSubmitter).                           *)
PostureConverges == <>[](Informed \/ Stuck)
=============================================================================
