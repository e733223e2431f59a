---------------------------- MODULE TokenStorage ----------------------------
(***************************************************************************)
(* The identity provider of the jwtchat example: its in-memory storage of  *)
(* authorization requests, codes and tokens (storage.go), called by the    *)
(* OpenID provider library from concurrent HTTP requests.  Every call      *)
(* holds the lock for part of its work only: a token request takes it once *)
(* for each table it touches.                                              *)
(***************************************************************************)
EXTENDS Naturals, FiniteSets, Functions

CONSTANTS Clients, Users,
          Handlers, \* HTTP requests in progress
          MaxIds    \* bound: uuids made

VARIABLES
    authRequests,  \* by id
    codes,         \* the id of the request, by code
    tokens,        \* access tokens, by id
    refreshTokens, \* by id, which is also the token
    handlers,      \* what each HTTP request has come to
    known,         \* the refresh tokens that were returned to their clients
    renewed,       \* history: the refresh tokens that renewRefreshToken replaced
    ids            \* uuids made so far

tokenVars == <<authRequests, codes, tokens, refreshTokens, handlers, known, renewed, ids>>

NoToken == 0
NoUser == "none"
Idle == [pc |-> "idle"]

NewStorage ==
    /\ authRequests = << >> /\ codes = << >> /\ tokens = << >> /\ refreshTokens = << >>
    /\ handlers = [h \in Handlers |-> Idle]
    /\ known = {} /\ renewed = {} /\ ids = 0

With(f, k, v) == [x \in DOMAIN f \union {k} |-> IF x = k THEN v ELSE f[x]]
Without(f, ks) == Restrict(f, DOMAIN f \ ks)
NewId == ids < MaxIds /\ ids' = ids + 1
Goes(h, state) == handlers' = [handlers EXCEPT ![h] = state]

-----------------------------------------------------------------------------
(* Logging in *)

CreateAuthRequest(client) ==
    /\ NewId
    /\ authRequests' = With(authRequests, ids', [client |-> client, user |-> NoUser, checked |-> FALSE])
    /\ UNCHANGED <<codes, tokens, refreshTokens, handlers, known, renewed>>

(* A wrong name or password changes nothing. *)
CheckUsernamePassword(id, user) ==
    /\ authRequests' = [authRequests EXCEPT ![id].user = user, ![id].checked = TRUE]
    /\ UNCHANGED <<codes, tokens, refreshTokens, handlers, known, renewed, ids>>

(* The library asks for a code once the request says Done. *)
SaveAuthCode(id) ==
    /\ authRequests[id].checked
    /\ NewId
    /\ codes' = With(codes, ids', id)
    /\ UNCHANGED <<authRequests, tokens, refreshTokens, handlers, known, renewed>>

-----------------------------------------------------------------------------
(* A token request with a code *)

(* AuthRequestByCode takes the lock for the code and again for the         *)
(* request, which another token request may have deleted.                  *)
AuthRequestByCode(h, code) ==
    /\ handlers[h] = Idle
    /\ Goes(h, [pc |-> "byId", id |-> codes[code]])
    /\ UNCHANGED <<authRequests, codes, tokens, refreshTokens, known, renewed, ids>>

AuthRequestByID(h) ==
    /\ handlers[h].pc = "byId"
    /\ LET id == handlers[h].id
       IN  Goes(h, IF id \notin DOMAIN authRequests THEN Idle
                   ELSE [pc |-> "access", id |-> id, request |-> authRequests[id], refresh |-> NoToken])
    /\ UNCHANGED <<authRequests, codes, tokens, refreshTokens, known, renewed, ids>>

Token(request, refresh) ==
    [client |-> request.client, user |-> request.user, refresh |-> refresh]

(* accessToken, for a code with the id of a refresh token still to be      *)
(* made, or, when a client has not asked for one, with none.               *)
accessTokenForCode(h) ==
    /\ handlers[h].pc = "access" /\ ids + 2 <= MaxIds
    /\ ids' = ids + 2
    /\ \E refresh \in {NoToken, ids + 2} :
         /\ tokens' = With(tokens, ids + 1, Token(handlers[h].request, refresh))
         /\ Goes(h, [handlers[h] EXCEPT !.pc = IF refresh = NoToken THEN "delete" ELSE "refresh",
                                        !.refresh = refresh])
    /\ UNCHANGED <<authRequests, codes, refreshTokens, known, renewed>>

createRefreshToken(h) ==
    /\ handlers[h].pc = "refresh"
    /\ refreshTokens' = With(refreshTokens, handlers[h].refresh, handlers[h].request)
    /\ Goes(h, [handlers[h] EXCEPT !.pc = "delete"])
    /\ UNCHANGED <<authRequests, codes, tokens, known, renewed, ids>>

(* DeleteAuthRequest removes the request and one of its codes. *)
DeleteAuthRequest(h) ==
    /\ handlers[h].pc = "delete"
    /\ authRequests' = Without(authRequests, {handlers[h].id})
    /\ LET mine == {c \in DOMAIN codes : codes[c] = handlers[h].id}
       IN  IF mine = {} THEN UNCHANGED codes ELSE \E c \in mine : codes' = Without(codes, {c})
    /\ known' = known \union ({handlers[h].refresh} \ {NoToken})
    /\ Goes(h, Idle)
    /\ UNCHANGED <<tokens, refreshTokens, renewed, ids>>

-----------------------------------------------------------------------------
(* A token request with a refresh token *)

TokenRequestByRefreshToken(h, t) ==
    /\ handlers[h] = Idle /\ t \in DOMAIN refreshTokens
    /\ Goes(h, [pc |-> "renew", refresh |-> t, request |-> refreshTokens[t]])
    /\ UNCHANGED <<authRequests, codes, tokens, refreshTokens, known, renewed, ids>>

(* The access tokens of a refresh token; the loops over them stop at the   *)
(* first.                                                                  *)
IssuedFor(t) == {k \in DOMAIN tokens : tokens[k].refresh = t}
RemovesOneOf(ks) == IF ks = {} THEN UNCHANGED tokens ELSE \E k \in ks : tokens' = Without(tokens, {k})


(* renewRefreshToken looks the token up again: it may have been renewed,   *)
(* revoked or signed out in between.                                       *)
renewRefreshToken(h) ==
    /\ handlers[h].pc = "renew"
    /\ LET t == handlers[h].refresh IN
       IF t \notin DOMAIN refreshTokens THEN Goes(h, Idle) /\ UNCHANGED <<tokens, refreshTokens, renewed, ids>>
       ELSE /\ NewId
            /\ refreshTokens' = With(Without(refreshTokens, {t}), ids', refreshTokens[t])
            /\ RemovesOneOf(IssuedFor(t))
            /\ renewed' = renewed \union {t}
            /\ Goes(h, [handlers[h] EXCEPT !.pc = "again", !.refresh = ids'])
    /\ UNCHANGED <<authRequests, codes, known>>

accessTokenAgain(h) ==
    /\ handlers[h].pc = "again"
    /\ NewId
    /\ tokens' = With(tokens, ids', Token(handlers[h].request, handlers[h].refresh))
    /\ known' = known \union {handlers[h].refresh}
    /\ Goes(h, Idle)
    /\ UNCHANGED <<authRequests, codes, refreshTokens, renewed>>

-----------------------------------------------------------------------------
(* Ending sessions *)

(* TerminateSession finds refresh tokens by the access tokens it removes. *)
TerminateSession(user, client) ==
    LET mine == {k \in DOMAIN tokens : tokens[k].client = client /\ tokens[k].user = user} IN
    /\ tokens' = Without(tokens, mine)
    /\ refreshTokens' = Without(refreshTokens, {tokens[k].refresh : k \in mine})
    /\ UNCHANGED <<authRequests, codes, handlers, known, renewed, ids>>

(* RevokeToken of an access token leaves its refresh token; of a refresh   *)
(* token it removes both.  A token of another client is refused.           *)
RevokeToken(t, client) ==
    /\ \/ /\ t \in DOMAIN tokens /\ tokens[t].client = client
          /\ tokens' = Without(tokens, {t})
          /\ UNCHANGED refreshTokens
       \/ /\ t \in DOMAIN refreshTokens /\ refreshTokens[t].client = client
          /\ refreshTokens' = Without(refreshTokens, {t})
          /\ RemovesOneOf(IssuedFor(t))
    /\ UNCHANGED <<authRequests, codes, handlers, known, renewed, ids>>

TokenNext ==
    \/ \E c \in Clients : CreateAuthRequest(c)
    \/ \E id \in DOMAIN authRequests : SaveAuthCode(id) \/ \E u \in Users : CheckUsernamePassword(id, u)
    \/ \E h \in Handlers : \/ \E c \in DOMAIN codes : AuthRequestByCode(h, c)
                           \/ \E t \in known : TokenRequestByRefreshToken(h, t)
                           \/ AuthRequestByID(h) \/ accessTokenForCode(h) \/ createRefreshToken(h)
                           \/ DeleteAuthRequest(h) \/ renewRefreshToken(h) \/ accessTokenAgain(h)
    \/ \E c \in Clients : \/ \E u \in Users : TerminateSession(u, c)
                          \/ \E t \in known \union DOMAIN tokens : RevokeToken(t, c)

-----------------------------------------------------------------------------
(* Properties *)

(* SetIntrospectionFromToken says that a token is active, to a client of   *)
(* its audience, which is the client it was made for.                      *)
SetIntrospectionFromToken(k, client) == k \in DOMAIN tokens /\ tokens[k].client = client

=============================================================================
