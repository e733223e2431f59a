------------------------------ MODULE Enroll ------------------------------
(***************************************************************************)
(* Enrollment (zt/enroll/enroll.go): a one-time token is exchanged for an  *)
(* identity.  Each attempt checks the token, prepares a key, fetches the   *)
(* controller's CAs, and posts.  Any request may not arrive, and any       *)
(* answer may be lost after the controller has acted, after which the      *)
(* caller may try again with the same token.  Keys and certificates are    *)
(* names (a certificate is named after the key it certifies); the          *)
(* controller is trusted if its CA is in the pool in use.                  *)
(***************************************************************************)
EXTENDS Naturals, Sequences

CONSTANTS MaxAttempts   \* bound on the attempts with one token

VARIABLES token,    \* the EnrollmentClaims and the controller that issued them
          flags,    \* the EnrollmentFlags, the same in every attempt
          pc,       \* where the attempt is
          key,      \* cfg.ID.Key of the attempt
          cert,     \* cfg.ID.Cert of the attempt
          caPool,   \* the CAs the attempt trusts, kept in cfg.ID.CA
          attempts, \* attempts begun
          record,   \* what the controller has enrolled, <<>> if nothing
          lost,     \* history: an answer to a successful post was lost
          results   \* what the attempts have returned without error

enrollVars == <<token, flags, pc, key, cert, caPool, attempts, record, lost, results>>

Generated(n) == <<"generated", n>>

EnrollInit ==
    /\ token \in [method : {"ott", "ottca", "ca", "updb", "other"}, issuer : BOOLEAN,
                  username : {"", "admin's"}, confirms : BOOLEAN, public : BOOLEAN]
    /\ flags \in [entry : {"Enroll", "EnrollUpdb"}, keyFile : {"", "file", "directory", "engine"},
                  keyAlg : {"EC", "RSA", "unknown"}, certFile : BOOLEAN, additionalCAs : SUBSET {"ca", "stranger"},
                  username : {"", "mine"}]
    /\ flags.entry = "EnrollUpdb" => token.method = "updb" /\ flags.keyFile = "" /\ ~flags.certFile
    /\ token.method # "updb" => flags.username = "" /\ token.username = "" /\ token.confirms
    /\ token.method = "updb" => flags.keyFile = "" /\ flags.keyAlg = "EC" /\ ~flags.certFile
    /\ pc = "idle" /\ key = <<>> /\ cert = <<>> /\ caPool = {} /\ attempts = 0
    /\ record = <<>> /\ lost = FALSE /\ results = {}

useSystemCasIfEmpty(pool) == IF pool = {} /\ token.public THEN {"ca"} ELSE pool
Trusts(pool) == "ca" \in pool

Goto(next) == pc' = next
Fail == Goto("idle") /\ UNCHANGED <<token, flags, key, cert, caPool, attempts, record, lost, results>>

GetCertPool == flags.additionalCAs

\* FetchServerCert takes whatever certificate the issuer presents; with it the
\* token's signature is checked.
ParseToken ==
    /\ pc = "idle" /\ attempts < MaxAttempts
    /\ attempts' = attempts + 1
    /\ \/ token.issuer /\ Goto(flags.entry)
       \/ Goto("idle")                      \* no issuer, or its certificate cannot be had
    /\ key' = <<>> /\ cert' = <<>> /\ caPool' = GetCertPool
    /\ UNCHANGED <<token, flags, record, lost, results>>

\* A key file that exists, an engine, or a new key; a directory is refused and
\* an unknown algorithm panics.
PrepareKey ==
    /\ pc = "Enroll"
    /\ \/ /\ token.method = "updb"
          /\ Goto("fetch") /\ UNCHANGED <<key, cert>>
       \/ /\ token.method # "updb" /\ flags.keyFile # "directory"
          /\ flags.keyFile = "" => flags.keyAlg \in {"EC", "RSA"}
          /\ key' = IF flags.keyFile = "" THEN Generated(attempts) ELSE <<flags.keyFile>>
          /\ cert' = IF flags.certFile THEN <<flags.keyFile>> ELSE <<>>
          /\ Goto("fetch")
       \/ /\ token.method # "updb"
          /\ flags.keyFile = "directory" \/ (flags.keyFile = "" /\ flags.keyAlg = "unknown")
          /\ Goto("idle") /\ UNCHANGED <<key, cert>>
    /\ UNCHANGED <<token, flags, caPool, attempts, record, lost, results>>

\* With the issuer's own certificate as the only root; nil after any error.
FetchCertificates == {{"ca"}, {}}

\* Enroll fetches the CAs first and needs at least one.
FetchControllerCas ==
    /\ pc = "fetch"
    /\ \E controllerCas \in FetchCertificates :
         /\ caPool' = caPool \cup controllerCas
         /\ Goto(IF controllerCas = {} THEN "idle" ELSE "post")
    /\ UNCHANGED <<token, flags, key, cert, attempts, record, lost, results>>

\* What each method needs before it posts: a key for the request it signs, or
\* an identity whose certificate belongs to the key.
Prepared ==
    CASE token.method = "ott" -> key # <<>>
      [] token.method \in {"ottca", "ca"} -> cert # <<>> /\ cert = key
      [] token.method = "updb" -> TRUE
      [] OTHER -> FALSE

NotPrepared == pc = "post" /\ ~Prepared /\ Fail

\* The controller enrolls a one-time token once, and a certificate once.
Name == IF flags.username # "" THEN flags.username ELSE token.username
Enrolls == record = <<>> /\ (token.method = "updb" => Name # "")
Enrolled == [key |-> key, username |-> Name]

Returned(username) ==
    results' = results \cup {[entry |-> flags.entry, key |-> key, cert |-> cert',
                              ca |-> caPool, username |-> username]}

enrollOTT == cert' = key          \* data.cert, or the body as PEM: the new certificate
enrollCA == UNCHANGED cert
enrollUpdb == IF token.confirms THEN Name ELSE ""    \* data.username of the answer

\* Mutant: the user name is the one the controller confirms, or none.
ConfirmedUsername == enrollUpdb

\* Controllers up to v1.5.0 do not confirm the username.
ResultUsername == IF enrollUpdb = "" THEN flags.username ELSE enrollUpdb
UsernameOf == IF flags.entry = "Enroll" THEN ResultUsername ELSE enrollUpdb

Complete ==
    IF token.method = "updb" THEN UNCHANGED cert /\ Returned(UsernameOf)
    ELSE (IF token.method = "ott" THEN enrollOTT ELSE enrollCA) /\ Returned("")

\* EnrollUpdb tries with the given CAs, and after any error once more with the
\* controller's added.
AfterError(at) == IF flags.entry = "EnrollUpdb" /\ at = "EnrollUpdb" THEN "fetch again" ELSE "idle"

Post(at) ==
    /\ pc = at
    /\ at = "post" => Prepared
    /\ IF Enrolls /\ Trusts(useSystemCasIfEmpty(caPool))
       THEN \/ /\ record' = Enrolled /\ Complete
               /\ Goto("idle") /\ UNCHANGED lost
            \/ /\ record' = Enrolled /\ lost' = TRUE
               /\ Goto(AfterError(at)) /\ UNCHANGED <<results, cert>>
            \/ Goto(AfterError(at)) /\ UNCHANGED <<record, lost, results, cert>>
       ELSE Goto(AfterError(at)) /\ UNCHANGED <<record, lost, results, cert>>
    /\ UNCHANGED <<token, flags, key, caPool, attempts>>

FetchAgain ==
    /\ pc = "fetch again"
    /\ \E certs \in FetchCertificates : caPool' = caPool \cup certs
    /\ Goto("post")
    /\ UNCHANGED <<token, flags, key, cert, attempts, record, lost, results>>

EnrollNext ==
    \/ ParseToken
    \/ PrepareKey
    \/ FetchControllerCas
    \/ NotPrepared
    \/ \E at \in {"post", "EnrollUpdb"} : Post(at)
    \/ FetchAgain

---------------------------------------------------------------------------

\* What an enrollment returns is what the controller enrolled, through lost
\* answers and new attempts: the configuration has the key that was certified,
\* a certificate for that key and the controller's CA, or the user name that
\* was recorded; and once the token is used up with nothing returned, it is
\* because an answer was lost.  (A controller that does not confirm the user
\* name leaves it unknown to EnrollUpdb, and to Enroll if none was given.)
EnrollmentAgrees ==
    /\ \A r \in results :
         /\ record # <<>> /\ r.key = record.key
         /\ token.method # "updb" => r.cert = r.key
         /\ r.entry = "Enroll" => "ca" \in r.ca
         /\ \/ r.username = record.username
            \/ ~token.confirms /\ (r.entry = "EnrollUpdb" \/ flags.username = "")
    /\ record # <<>> /\ results = {} => lost
===========================================================================
