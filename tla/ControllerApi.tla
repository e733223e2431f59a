--------------------------- MODULE ControllerApi ---------------------------
(***************************************************************************)
(* The client side of the controller API (edge-apis): how a request finds  *)
(* a controller in a pool of several, and what the OIDC login makes of the *)
(* controller's answers.                                                   *)
(***************************************************************************)
EXTENDS Integers, FiniteSets

(***************************************************************************)
(* ClientTransportPoolRandom.  answers[c] is what controller c would       *)
(* answer: "network" for a net.OpError, anything else ends the request.    *)
(* An outcome has the answer given to the caller and the controller that   *)
(* is active from then on.                                                 *)
(***************************************************************************)

\* AnyTransport, when no controller is active yet.
GetActiveTransport(pool, active) == IF active \in pool THEN {active} ELSE pool

\* errorIndicatesControllerSwap: a timeout is not a net.OpError.
errorIndicatesControllerSwap(answer) == answer = "network"

\* The active controller first; when it cannot be reached, the others in random
\* order until one succeeds, which becomes the active one. If none does, the
\* error is that of the last one tried.
TryTransportForF(pool, active, answers) ==
    UNION { LET others == pool \ {a}
                good == {c \in others : answers[c] = "ok"} IN
            IF ~errorIndicatesControllerSwap(answers[a]) \/ others = {}
            THEN {[answer |-> answers[a], active |-> a]}
            ELSE IF good # {}
            THEN {[answer |-> "ok", active |-> c] : c \in good}
            ELSE {[answer |-> answers[c], active |-> a] : c \in others}
          : a \in GetActiveTransport(pool, active) }

\* ProcessControllers: the peers a controller lists join the pool, if there are any.
ProcessControllers(pool, listed) == IF Cardinality(listed) <= 1 THEN pool ELSE pool \cup listed

-----------------------------------------------------------------------------
(***************************************************************************)
(* The OIDC authorization code flow.  f describes how the controller       *)
(* behaves in it: the status of each answer, whether the redirect has a    *)
(* code, and whether state, nonce and TOTP code are the ones that belong   *)
(* to this login.                                                          *)
(***************************************************************************)

\* "ok" unless an earlier step failed or this one does.
After(previous, holds, error) == IF previous # "ok" THEN previous ELSE IF holds THEN "ok" ELSE error

initOAuthFlow(f) ==
    After(After("ok", f.authorize = 200, "start failed"), f.id, "no request id")

\* A 302 ends the login, a 200 asks for a TOTP code if it says so and the
\* application can give one.
handlePrimaryAndSecondaryAuth(f, begun) ==
    IF begun = "ok" /\ f.login = 302 THEN "ok"
    ELSE LET asked == After(After(begun, f.login = 200, "credentials rejected"),
                            f.totp /\ f.provider, "unsupported")
         IN  After(asked, f.verify = 302, "totp failed")

\* The answer must be a 200 with an access token.
exchangeAuthorizationCodeForTokens(f, checked) ==
    After(checked, f.token = 200 /\ f.access, "exchange failed")

\* Mutant: the token's nonce is not compared.
finishOAuthFlowAnyNonce(f, redirected) ==
    LET checked == After(After(redirected, f.state = "ours", "state mismatch"), f.code, "no code")
    IN  exchangeAuthorizationCodeForTokens(f, checked)

\* The redirect must carry our state and a code; the tokens the code is
\* exchanged for must carry our nonce.
finishOAuthFlow(f, redirected) ==
    LET checked == After(After(redirected, f.state = "ours", "state mismatch"), f.code, "no code")
        tokens == exchangeAuthorizationCodeForTokens(f, checked)
    IN  After(tokens, f.nonce = "ours", "nonce mismatch")

\* EdgeOidcAuthenticator.Authenticate, all of it at one controller.
OidcAuthenticate(f) == finishOAuthFlow(f, handlePrimaryAndSecondaryAuth(f, initOAuthFlow(f)))

=============================================================================
