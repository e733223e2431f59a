-------------------------- MODULE MCClientLiveness --------------------------
(***************************************************************************)
(* One run for components that do not interact and have to make progress.  *)
(* The initial state chooses the component, `part'; the variables of the   *)
(* chosen one are held in v1 to v16, those of ConnMux, which is extended   *)
(* for its assumption, under their own names.  The state space is the sum  *)
(* of those of the components.                                             *)
(***************************************************************************)
EXTENDS ConnMux, Integers, Sequences

CONSTANTS Nil, Names, DefaultUnderlays, ControlUnderlays, DefaultMsgs, ControlMsgs

VARIABLES part, v1, v2, v3, v4, v5, v6, v7, v8, v9, v10, v11, v12, v13, v14, v15, v16

pool == <<v1, v2, v3, v4, v5, v6, v7, v8, v9, v10, v11, v12, v13, v14, v15, v16>>
allVars == <<part, pool, vars>>

\* v_i and those after it hold nothing.
Unused13 == v13 = Nil /\ v14 = Nil /\ v15 = Nil /\ v16 = Nil
Unused11 == v11 = Nil /\ v12 = Nil /\ Unused13
Unused10 == v10 = Nil /\ Unused11
Unused1 ==
    /\ v1 = Nil /\ v2 = Nil /\ v3 = Nil /\ v4 = Nil /\ v5 = Nil
    /\ v6 = Nil /\ v7 = Nil /\ v8 = Nil /\ v9 = Nil /\ Unused10

-----------------------------------------------------------------------------
(* The components, with their bounds.                                        *)

Services == INSTANCE ContextServices WITH
    PageLimit <- 1, MaxChanges <- 2, MaxSilences <- 1,
    list <- v1, changed <- v2, services <- v3, intercepts <- v4, last <- v5, seen <- v6, at <-
    v7, silences <- v8, overlapped <- v9

Checks == INSTANCE Posture WITH
    Timeouts <- {<<2, 1>>}, MaxChanges <- 2, MaxQueries <- 1, MaxTokens <- 1, MaxLosses <- 1, MaxConnects <- 1,
    device <- v1, active <- v2, timeouts <- v3, listens <- v4, current <- v5, previous <- v6,
    evaluating <- v7, issued <- v8, doSingle <- v9, session <- v10, oldCtrl <- v11, routers <-
    v12, initializing <- v13, view <- v14, missed <- v15, budget <- v16

Channel == INSTANCE SdkChannel WITH
    QueueSize <- 1, MaxFaults <- 2,
    up <- v1, withControl <- v2, sending <- v3, controlChannelAvailable <- v4, queue <- v5,
    closed <- v6, accepted <- v7, sent <- v8, dropped <- v9, faults <- v10

-----------------------------------------------------------------------------
(* What the other side of a connection may send: one piece, parts, empty     *)
(* messages, a crypto header, and each of the ends a stream may have.        *)

Msg == INSTANCE EdgeConn WITH
    Scripts <- {}, Depth <- 2, ReadSizes <- {}, MaxDeadlines <- 2,
    conn <- v1, script <- v2, sent <- v3, putting <- v4, queue <- v5, queueDone <- v6, deadline
    <- v7, reader <- v8, setter <- v9, out <- v10, eof <- v11, lost <- v12

Piece == Msg!Data(<<<<1, 2>>>>, FALSE, FALSE)
Parts == Msg!Data(<<<<3>>, <<4, 5, 6>>>>, TRUE, FALSE)
LastPiece == Msg!Data(<<<<3, 4>>>>, FALSE, TRUE)
Fin == Msg!Data(<<>>, FALSE, TRUE)
Empty == Msg!Data(<<>>, FALSE, FALSE)
ConnScripts ==
    { <<Piece, Parts, Fin>>, <<Msg!CryptoHeader, Piece, Parts, Msg!StateClosed>>,
      <<Msg!CryptoHeader, Piece, LastPiece, Msg!StateClosed>>,
      <<Piece, Empty, Msg!OtherMessage, Parts>>, <<Msg!StateClosed>> }

Reading == INSTANCE EdgeConn WITH
    Scripts <- ConnScripts, Depth <- 2, ReadSizes <- {1, 2, 3}, MaxDeadlines <- 2,
    conn <- v1, script <- v2, sent <- v3, putting <- v4, queue <- v5, queueDone <- v6, deadline
    <- v7, reader <- v8, setter <- v9, out <- v10, eof <- v11, lost <- v12

-----------------------------------------------------------------------------
PartsInit ==
    /\ \/ part = "services" /\ Services!ServicesInit /\ Unused10
       \/ part = "posture" /\ Checks!PostureInit
       \/ part = "channel" /\ Channel!ChannelInit /\ Unused11
       \/ part = "conn" /\ Reading!ConnInit /\ Unused13
       \/ part = "mux" /\ Unused1
    /\ Init

ServicesRuns == part = "services" /\ Services!ServicesNext /\ UNCHANGED <<v10, v11, v12, v13, v14, v15, v16>>
PostureRuns == part = "posture" /\ Checks!PostureNext
ChannelRuns == part = "channel" /\ Channel!ChannelNext /\ UNCHANGED <<v11, v12, v13, v14, v15, v16>>
ConnRuns == part = "conn" /\ Reading!ConnNext /\ UNCHANGED <<v13, v14, v15, v16>>

PartsNext ==
    /\ UNCHANGED part
    /\ \/ part = "mux" /\ Next /\ UNCHANGED pool
       \/ (ServicesRuns \/ PostureRuns \/ ChannelRuns \/ ConnRuns) /\ UNCHANGED vars

\* The fairness that each module states, while its component is the one that runs.
vars9 == <<v1, v2, v3, v4, v5, v6, v7, v8, v9>>
vars10 == <<vars9, v10>>
vars12 == <<vars10, v11, v12>>

PartsFairness ==
    /\ \A c \in Conns : WF_vars(part = "mux" /\ Proceeds(c))
    /\ WF_vars(part = "mux" /\ MuxCloses)
    /\ WF_vars9(part = "services" /\ Services!CheckUpdates)
    /\ \A g \in Services!Refreshers : WF_vars9(part = "services" /\ Services!Refresh(g))
    /\ WF_pool(part = "posture" /\ Checks!EvaluationSteps)
    /\ WF_pool(part = "posture" /\ Checks!InitializationSteps)
    /\ \A u \in DefaultUnderlays \cup ControlUnderlays :
         WF_vars10(part = "channel" /\ Channel!UnderlayRuns(u))
    /\ WF_vars12(part = "conn" /\ Reading!Reads)
    /\ WF_vars12(part = "conn" /\ Reading!NotifyReader)

PartsSpec == PartsInit /\ [][PartsNext]_allVars /\ PartsFairness

\* What follows an overlap of two refreshes, or a cache that is stuck, is excused by
\* the properties and need not be searched.
NotExcused == ~(part = "services" /\ v9) /\ ~(part = "posture" /\ Checks!Stuck)

-----------------------------------------------------------------------------
(* The properties of the components, guarded by the part that runs. Those of *)
(* ConnMux hold of the initial state, in which the other parts leave it.     *)


\* Posture!PostureConverges: the recipients come to know what the device is, unless
\* the cache is stuck in GetTotpCode (Cache.Evaluate, MultiSubmitter).
PostureConverges == <>[](part = "posture" => Checks!Informed \/ Checks!Stuck)

\* SdkChannel!MessagesLeave: a message that a sender has taken is sent or given up
\* (GetNextMsgDefault, HandleTxFailed, HandleUnderlayClose).
MessagesLeave == []<>(part = "channel" => Channel!AllLeft)

\* EdgeConn!ReadsEverything: what was sent is read, in order, before the end of the
\* stream (edgeConn.Read, noopSeq).
ReadsEverything == part = "conn" => Reading!ReadsEverything

=============================================================================
