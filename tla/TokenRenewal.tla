---------------------------- MODULE TokenRenewal ----------------------------
(***************************************************************************)
(* When an API session is renewed: the timed part of runRefreshes, the     *)
(* exchange of OIDC tokens behind it, logins by other goroutines, and      *)
(* sessions that the application saves and starts again from.              *)
(*                                                                         *)
(* Time is counted in units; `now' advances when nothing is overdue.  The  *)
(* loop has other work and its requests take time: it gets to a due        *)
(* renewal, and a request's answer is stored, within MaxDelay.             *)
(***************************************************************************)
EXTENDS ControllerApi

CONSTANTS Controllers,
          FirstWait,    \* 30 s: the first look, when there is no session yet
          Early,        \* 10 s: a renewal is due that long before the expiry
          Retry,        \* 5 s: after a failure
          MaxDelay,     \* how late the loop may be, and how long an answer may take
          Lifetime,     \* of the sessions the controllers hand out
          MaxTime, MaxFaults, MaxLogins

VARIABLES now,
          session,      \* CtrlClt.ApiSession
          refreshAt,    \* of runRefreshes
          pending,      \* the answers on their way to be stored: of the loop and of a login
          ctrl, activeCtrl,
          failedAt,     \* when a renewal last failed
          refused,      \* a saved session the controllers could have renewed was refused
          spent         \* faults and logins so far

renewalVars == <<now, session, refreshAt, pending, ctrl, activeCtrl, failedAt, refused, spent>>

Unset == 0
NoApiSession == [kind |-> "none", refresh |-> FALSE, expiry |-> Unset, claim |-> Unset]

\* What the controllers hand out: expiry is recorded by the client, claim is in the token.
NewSession(kind, refresh) ==
    [kind |-> kind, refresh |-> refresh, expiry |-> now + Lifetime, claim |-> now + Lifetime]

LoginKinds == {<<"legacy", FALSE>>, <<"oidc", FALSE>>, <<"oidc", TRUE>>}

-----------------------------------------------------------------------------
\* An expiry that is not recorded is read from the token.
isAccessTokenExpired(s) == IF s.expiry = Unset THEN s.claim < now ELSE s.expiry < now

\* exchangeTokens, before it asks a controller: the refresh token renews a session
\* whatever the age of the access token, an access token only while it lives.
Exchangeable(s) == s.refresh \/ ~isAccessTokenExpired(s)

\* The requests of exchangeTokens, or of GetCurrentAPISession for a legacy session, which
\* a controller refuses when the session has run out.
Renews(s) == IF s.kind = "oidc" THEN Exchangeable(s) ELSE now < s.claim

\* The outcomes of RefreshApiSession: the new session, or none.
RefreshApiSession(s) ==
    { [session |-> IF o.answer = "ok" /\ Renews(s) THEN NewSession(s.kind, s.refresh) ELSE NoApiSession,
       active |-> IF s.kind = "oidc" /\ ~Exchangeable(s) THEN activeCtrl ELSE o.active]
      : o \in TryTransportForF(Controllers, activeCtrl, ctrl) }

\* A login at the controllers that answers with a session of kind k.
LoginAs(k) ==
    { [session |-> IF o.answer = "ok" THEN NewSession(k[1], k[2]) ELSE NoApiSession, active |-> o.active]
      : o \in TryTransportForF(Controllers, activeCtrl, ctrl) }

legacyAuth == LoginAs(<<"legacy", FALSE>>)
oidcAuth == LoginAs(<<"oidc", FALSE>>) \cup LoginAs(<<"oidc", TRUE>>)

\* ZitiEdgeClient.Authenticate, with OIDC if it is enabled at the controller.
Login == legacyAuth \cup oidcAuth

-----------------------------------------------------------------------------
\* The first value of refreshAt.
FirstRefresh(s) == IF s.expiry # Unset THEN s.expiry - Early ELSE now + FirstWait

NothingPending ==
    [p \in {"loop", "login"} |-> [session |-> NoApiSession, since |-> Unset, by |-> "none"]]

RenewalInit ==
    /\ now = 2
    /\ session \in {NoApiSession} \cup {NewSession(k[1], k[2]) : k \in LoginKinds}
    /\ refreshAt = FirstRefresh(session)
    /\ pending = NothingPending
    /\ ctrl = [c \in Controllers |-> "ok"]
    /\ activeCtrl \in Controllers
    /\ failedAt = Unset
    /\ refused = FALSE
    /\ spent = [fault |-> 0, login |-> 0]

Waits(p) == pending[p].since # Unset
Settled(p) == [pending EXCEPT ![p] = NothingPending[p]]
Answered(p, s, by) == [pending EXCEPT ![p] = [session |-> s, since |-> now, by |-> by]]

\* runRefreshes, refreshAt is due: CtrlClt.Refresh asks the controllers, or the loop
\* authenticates when there is no session.
LoopRenews ==
    /\ now >= refreshAt /\ ~Waits("loop")
    /\ \E o \in IF session.kind = "none" THEN Login ELSE RefreshApiSession(session) :
         /\ activeCtrl' = o.active
         /\ IF o.session.kind = "none"
            THEN /\ refreshAt' = now + Retry
                 /\ failedAt' = now
                 /\ UNCHANGED pending
            ELSE /\ pending' = Answered("loop", o.session,
                                         IF session.kind = "none" THEN "login" ELSE "renewal")
                 /\ UNCHANGED <<refreshAt, failedAt>>
    /\ UNCHANGED <<now, session, ctrl, refused, spent>>


\* The new session is stored. After a renewal the next one is due before it runs out,
\* after a login soon.
LoopStores ==
    /\ Waits("loop")
    /\ session' = pending["loop"].session
    /\ refreshAt' = IF pending["loop"].by = "renewal" THEN session'.expiry - Early ELSE now + Retry
    /\ pending' = Settled("loop")
    /\ UNCHANGED <<now, ctrl, activeCtrl, failedAt, refused, spent>>

\* Another goroutine logs in (a service tick or a listener that was refused):
\* BaseClient.Authenticate drops the session it has and stores the new one.
OtherLogin ==
    /\ ~Waits("login") /\ spent.login < MaxLogins
    /\ session' = NoApiSession
    /\ \E o \in Login :
         /\ activeCtrl' = o.active
         /\ pending' = IF o.session.kind = "none" THEN pending ELSE Answered("login", o.session, "login")
    /\ spent' = [spent EXCEPT !.login = @ + 1]
    /\ UNCHANGED <<now, refreshAt, ctrl, failedAt, refused>>

OtherLoginStores ==
    /\ Waits("login")
    /\ session' = pending["login"].session
    /\ pending' = Settled("login")
    /\ UNCHANGED <<now, refreshAt, ctrl, activeCtrl, failedAt, refused, spent>>

\* MarshalJSON keeps the type and the tokens, not the recorded expiry.
MarshalJSON(s) == [s EXCEPT !.expiry = Unset]

\* What an application may have saved in an earlier life.
SavedSessions ==
    { MarshalJSON([NewSession(k[1], k[2]) EXCEPT !.claim = t])
      : k \in LoginKinds, t \in now - 1 .. now + Lifetime }

\* The application starts from a session it reads with UnmarshalApiSession, by
\* AuthenticateWithPreviousSession; runRefreshes starts afterwards.
AuthenticateWithPreviousSession ==
    /\ now = 2 /\ session = NoApiSession /\ failedAt = Unset /\ spent.login = 0
    /\ \E saved \in SavedSessions : \E o \in RefreshApiSession(saved) :
         /\ activeCtrl' = o.active
         /\ session' = o.session
         /\ refused' = /\ o.session.kind = "none"
                       /\ \A c \in Controllers : ctrl[c] = "ok"
                       /\ saved.refresh \/ now < saved.claim
         /\ failedAt' = IF o.session.kind = "none" THEN now ELSE failedAt
    /\ refreshAt' = FirstRefresh(session')
    /\ UNCHANGED <<now, pending, ctrl, spent>>

\* A controller becomes unreachable, hangs, or is back.
ControllerChanges(c) ==
    /\ \E a \in {"ok", "network", "timeout"} \ {ctrl[c]} :
         /\ a # "ok" => spent.fault < MaxFaults
         /\ ctrl' = [ctrl EXCEPT ![c] = a]
         /\ spent' = IF a = "ok" THEN spent ELSE [spent EXCEPT !.fault = @ + 1]
    /\ UNCHANGED <<now, session, refreshAt, pending, activeCtrl, failedAt, refused>>

Tick ==
    /\ now < MaxTime
    /\ now < refreshAt + MaxDelay \/ Waits("loop")
    /\ \A p \in {"loop", "login"} : Waits(p) => now < pending[p].since + MaxDelay
    /\ now' = now + 1
    /\ UNCHANGED <<session, refreshAt, pending, ctrl, activeCtrl, failedAt, refused, spent>>

RenewalNext ==
    \/ LoopRenews \/ LoopStores
    \/ OtherLogin \/ OtherLoginStores
    \/ AuthenticateWithPreviousSession
    \/ \E c \in Controllers : ControllerChanges(c)
    \/ Tick

-----------------------------------------------------------------------------
=============================================================================
