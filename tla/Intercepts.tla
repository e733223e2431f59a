---------------------------- MODULE Intercepts ----------------------------
(***************************************************************************)
(* Which service an address is dialled on: edge.InterceptV1Config.Match    *)
(* and the addresses it is made of (zt/edge/types.go), the search of one   *)
(* context's intercepts, ContextImpl.GetServiceForAddr, and the search of  *)
(* a collection's contexts, dialer.Dial (zt/dialer.go).  Both searches     *)
(* walk a concurrent map, whose order is different each time: a step takes *)
(* any entry not visited yet.  A host name is a sequence of characters, an *)
(* IP address a sequence of bits, a service name a number (their order is  *)
(* the alphabet's).                                                        *)
(***************************************************************************)
EXTENDS Integers, Sequences, SequencesExt, FiniteSetsExt

CONSTANTS Contexts,       \* the contexts of the collection
          Services,       \* the names of services
          InterceptSets,  \* what the intercepts of a context may be
          Targets         \* what is dialled: [network, host, port]

VARIABLES intercepts,  \* per context, the intercept of each service that has one
          target,      \* what is dialled
          searched,    \* contexts the dialer has visited
          best,        \* of dialer.Dial: [score, context, service]
          at,          \* the context being searched
          visited,     \* services of it visited
          found        \* of GetServiceForAddr: [score, service]

interceptVars == <<intercepts, target, searched, best, at, visited, found>>

MaxInt == 2147483647
NoMatch == -1
None == [score |-> MaxInt]

Lowest(scores) == IF scores = {} THEN NoMatch ELSE Min(scores)

\* UnmarshalText reads an address as a CIDR, an IP address, or a lower-case name
\* of at least three characters whose only wildcard is a leading "*.".
ToLower(s) == [i \in DOMAIN s |-> IF s[i] = "A" THEN "a" ELSE s[i]]
ValidName(v) == Len(v) >= 3 /\ (v[1] = "*" => v[2] = ".")
UnmarshalText(v) ==
    IF v.kind \in {"cidr", "ip"} THEN {v}
    ELSE IF ValidName(v.text) THEN {[v EXCEPT !.text = ToLower(v.text)]} ELSE {}

DomainMatch(dn, hostname) ==
    IF dn[1] = "*"
    THEN LET domain == Tail(dn)
         IN IF IsSuffix(domain, hostname) THEN Len(hostname) - Len(domain) ELSE NoMatch
    ELSE IF hostname = dn THEN 0 ELSE NoMatch

\* An address is matched by what it is: an IP against an IP or a network, a name
\* against a name.  A network scores the size of its host part.
Matches(address, host) ==
    CASE host.kind = "ip" /\ address.kind = "ip" -> IF host.text = address.text THEN 0 ELSE NoMatch
      [] host.kind = "ip" /\ address.kind = "cidr" ->
            IF IsPrefix(address.text, host.text) THEN Len(host.text) - Len(address.text) ELSE NoMatch
      [] host.kind = "name" /\ address.kind = "name" -> DomainMatch(address.text, ToLower(host.text))
      [] OTHER -> NoMatch

PortMatch(range, port) ==
    IF range[1] <= port /\ port <= range[2] THEN range[2] - range[1] ELSE NoMatch

Match(intercept, t) ==
    LET addrScore == Lowest({Matches(a, t.host) : a \in intercept.addresses} \ {NoMatch})
        portScore == Lowest({PortMatch(r, t.port) : r \in intercept.portRanges} \ {NoMatch})
    IN IF t.network \notin intercept.protocols \/ addrScore = NoMatch \/ portScore = NoMatch
       THEN NoMatch
       ELSE addrScore * 2^16 + (portScore % 2^16)

\* ClientConfig.ToInterceptV1Config: both protocols, one host, one port.
ToInterceptV1Config(config) ==
    [protocols |-> {"tcp", "udp"}, addresses |-> {config.hostname},
     portRanges |-> {<<config.port % 2^16, config.port % 2^16>>}]

normalizeProtocol(proto) ==
    CASE proto \in {"tcp", "tcp4", "tcp6"} -> "tcp"
      [] proto \in {"udp", "udp4", "udp6"} -> "udp"
      [] OTHER -> proto

\* Atoi takes any number and uint16 its last bits.
Normal(t) == [network |-> normalizeProtocol(t.network), host |-> t.host, port |-> t.port % 2^16]

InterceptInit ==
    /\ intercepts \in [Contexts -> InterceptSets]
    /\ target \in {Normal(t) : t \in Targets}
    /\ searched = {} /\ best = None /\ at = {} /\ visited = {} /\ found = None

\* ForAll's callback: once a perfect match is found the other contexts are passed over.
SearchContext(c) ==
    /\ at = {} /\ c \in Contexts \ searched
    /\ best.score # 0
    /\ at' = {c} /\ visited' = {} /\ found' = None
    /\ UNCHANGED <<intercepts, target, searched, best>>


Better(sc, s) ==
    \/ found.score > sc
    \/ found.score = sc /\ s < found.service   \* the alphabetically first service

\* IterCb's callback; a score of 0 ends the search.
GetServiceForAddr(c, s) ==
    /\ at = {c} /\ s \in DOMAIN intercepts[c] \ visited
    /\ found.score # 0
    /\ visited' = visited \cup {s}
    /\ LET sc == Match(intercepts[c][s], target)
       IN found' = IF sc # NoMatch /\ Better(sc, s)
                   THEN [score |-> sc, service |-> s] ELSE found
    /\ UNCHANGED <<intercepts, target, searched, best, at>>

\* The search of a context ends, and what it found is compared with the best.
ContextSearched(c) ==
    /\ at = {c} /\ (found.score = 0 \/ visited = DOMAIN intercepts[c])
    /\ searched' = searched \cup {c}
    /\ at' = {}
    /\ best' = IF found # None /\ found.score < best.score
               THEN [score |-> found.score, context |-> c, service |-> found.service] ELSE best
    /\ UNCHANGED <<intercepts, target, visited, found>>

InterceptNext ==
    \E c \in Contexts :
        \/ SearchContext(c)
        \/ \E s \in Services : GetServiceForAddr(c, s)
        \/ ContextSearched(c)

---------------------------------------------------------------------------

Scores(c) == {Match(intercepts[c][s], target) : s \in DOMAIN intercepts[c]} \ {NoMatch}
Found(c) == at = {c} /\ (found.score = 0 \/ visited = DOMAIN intercepts[c])
Dialled == at = {} /\ (best.score = 0 \/ searched = Contexts)

===========================================================================
