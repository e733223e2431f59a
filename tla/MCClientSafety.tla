--------------------------- MODULE MCClientSafety ---------------------------
(***************************************************************************)
(* One run for components that do not interact and whose properties are    *)
(* safety properties.  The initial state chooses the component, `part';    *)
(* the variables of the chosen one are held in v1 to v10, those of         *)
(* SessionRefresh and WriteAdapter, which are extended because theorems    *)
(* speak of them, under their own names.  The state space is the sum of    *)
(* those of the components.                                                *)
(***************************************************************************)
EXTENDS SessionRefresh, WriteAdapter, Sequences, FiniteSets, TLC

CONSTANTS Nil, Dialers, Routers, Controllers, Loaders, Contexts, Handlers, Clients, Users

VARIABLES part, v1, v2, v3, v4, v5, v6, v7, v8, v9, v10

pool == <<v1, v2, v3, v4, v5, v6, v7, v8, v9, v10>>
allVars == <<part, pool, refreshVars, writeVars>>

\* v_i and those after it hold nothing.
Unused10 == v10 = Nil
Unused9 == v9 = Nil /\ Unused10
Unused8 == v8 = Nil /\ Unused9
Unused7 == v7 = Nil /\ Unused8
Unused4 == v4 = Nil /\ v5 = Nil /\ v6 = Nil /\ Unused7
Unused2 == v2 = Nil /\ v3 = Nil /\ Unused4

-----------------------------------------------------------------------------
(* The components, with their bounds.                                        *)

Dial == INSTANCE ContextDial WITH
    MaxFaults <- 1,
    cache <- v1, mapped <- v2, connects <- v3, dial <- v4, svc <- v5, made <- v6, up <- v7,
    ctrl <- v8, faultsLeft <- v9

Renewal == INSTANCE TokenRenewal WITH
    FirstWait <- 5, Early <- 4, Retry <- 2, MaxDelay <- 1, Lifetime <- 9, MaxTime <- 18,
    MaxFaults <- 1, MaxLogins <- 1,
    now <- v1, session <- v2, refreshAt <- v3, pending <- v4, ctrl <- v5, activeCtrl <- v6,
    failedAt <- v7, refused <- v8, spent <- v9

Handshake == INSTANCE Handshake WITH
    MaxUpdates <- 1,
    setup <- v1, hostConn <- v2, child <- v3, dialConn <- v4, terminator <- v5, circuit <- v6,
    toRouter <- v7, toHost <- v8, toDialer <- v9, updates <- v10

Storage == INSTANCE TokenStorage WITH
    MaxIds <- 6,
    authRequests <- v1, codes <- v2, tokens <- v3, refreshTokens <- v4, handlers <- v5,
    known <- v6, renewed <- v7, ids <- v8

Enrolling == INSTANCE Enroll WITH
    MaxAttempts <- 2,
    token <- v1, flags <- v2, pc <- v3, key <- v4, cert <- v5, caPool <- v6, attempts <- v7,
    record <- v8, lost <- v9, results <- v10

Collecting == INSTANCE Collection WITH
    Configs <- {[ztAPI |-> "a", ztAPIs |-> <<>>, id |-> "id", credentials |-> "", maxDefault |-> 0]},
    AppIds <- {100}, MaxContexts <- 3,
    made <- v1, contexts <- v2, loader <- v3

Payloads == INSTANCE XgressCodec
Messages == INSTANCE EdgeMessages

-----------------------------------------------------------------------------
(* Intercepts: names, wildcards, networks and addresses, some of which       *)
(* overlap; and what is dialled.                                             *)

Text(v) == [kind |-> "name", text |-> v]
Name == Text(<<"A", ".", "b">>)
Wild == Text(<<"*", ".", "b">>)
Net == [kind |-> "cidr", text |-> <<1, 0>>]
Host == [kind |-> "ip", text |-> <<1, 0, 1>>]
Services == {1, 2}
Targets ==
    { [network |-> n, host |-> h, port |-> p]
      : n \in {"tcp4", "udp"}, h \in {Name, Text(<<"c", "a", ".", "b">>), Host},
        p \in {80, 81, 443 + 65536} }

Matching == INSTANCE Intercepts WITH
    InterceptSets <- {},
    intercepts <- v1, target <- v2, searched <- v3, best <- v4, at <- v5, visited <- v6, found <- v7

Addresses(vs) == UNION {Matching!UnmarshalText(v) : v \in vs}
InterceptConfigs ==
    { [protocols |-> {"tcp", "udp"}, addresses |-> Addresses({Wild, Net}), portRanges |-> {<<80, 81>>}],
      [protocols |-> {"tcp"}, addresses |-> Addresses({Wild, Host}),
       portRanges |-> {<<80, 80>>, <<443, 443>>}],
      [protocols |-> {"tcp", "udp"},
       addresses |-> Addresses({Name, Text(<<"b">>), Text(<<"*", "b", "b">>)}),
       portRanges |-> {<<80, 81>>}] }
    \cup {Matching!ToInterceptV1Config([hostname |-> a, port |-> 80]) : a \in Addresses({Name, Host})}
Search == INSTANCE Intercepts WITH
    InterceptSets <- UNION {[S -> InterceptConfigs] : S \in SUBSET Services},
    intercepts <- v1, target <- v2, searched <- v3, best <- v4, at <- v5, visited <- v6, found <- v7

-----------------------------------------------------------------------------
(* Inputs of the codecs: MTUs around the size of the headers, buffers of up  *)
(* to several packets and around the first two-byte length; ids at every     *)
(* byte boundary.                                                            *)

Bytes(n) == [i \in 1..n |-> i]
PacketInputs ==
    { [buffer |-> Bytes(n), headers |-> h, id |-> Bytes(l), seq |-> s, terminator |-> s = 0, mtu |-> mtu]
      : n \in 0..9 \cup {127, 128}, h \in {<<>>, [k \in {7} |-> <<1>>], [k \in {3, 255} |-> Bytes(k % 4)]},
        l \in {1, 3}, s \in {0, 4, 127}, mtu \in 16..22 }
PayloadInputs ==
    { [data |-> Bytes(n), headers |-> h, id |-> <<1>>, seq |-> s, flags |-> f]
      : n \in {0, 2}, h \in {<<>>, [k \in {0, 255} |-> <<k>>]}, s \in {0, 255, 256, 32767, -32768, -1},
        f \in SUBSET {"chunk", "terminator"} }
AckInputs ==
    { [id |-> <<1>>, seqs |-> q, size |-> z, flags |-> f]
      : q \in {<<>>, <<0, 256>>, <<32767, -32768, -1>>}, z \in {0, 65535}, f \in SUBSET {"terminator"} }
MessageInputs ==
    { [id |-> id, newId |-> new, error |-> e, hops |-> hops, sinks |-> sinks, responses |-> rs]
      : id \in {1, 9}, new \in {0, 255, 256, 65536, 16777216, 2147483647},
        e \in {[code |-> 1, retry |-> "yes", cause |-> c] : c \in {Nil, "cause"}}, hops \in 0..2,
        sinks \in {<<>>, <<[kind |-> "dial"]>>},
        rs \in {<<>>, <<[type |-> "endpoint", woken |-> TRUE, unlocked |-> TRUE], [type |-> "os"]>>} }

-----------------------------------------------------------------------------
CodecInit(kind, inputs) == part = kind /\ v1 \in inputs /\ Unused2

PartsInit ==
    /\ \/ part = "dial" /\ Dial!DialInit /\ Unused10
       \/ part = "renewal" /\ Renewal!RenewalInit /\ Unused10
       \/ part = "handshake" /\ Handshake!HandshakeInit
       \/ part = "storage" /\ Storage!NewStorage /\ Unused9
       \/ part = "enroll" /\ Enrolling!EnrollInit
       \/ part = "collection" /\ Collecting!CollectionInit /\ Unused4
       \/ part = "search" /\ Search!InterceptInit /\ Unused8
       \/ part \in {"refresh", "write"} /\ v1 = Nil /\ Unused2
       \/ CodecInit("packet", PacketInputs) \/ CodecInit("payload", PayloadInputs)
       \/ CodecInit("ack", AckInputs) \/ CodecInit("message", MessageInputs)
    /\ RefreshInit /\ WriteInit

PartsNext ==
    /\ UNCHANGED part
    /\ \/ part = "refresh" /\ RefreshNext /\ UNCHANGED <<pool, writeVars>>
       \/ part = "write" /\ WriteNext /\ UNCHANGED <<pool, refreshVars>>
       \/ /\ \/ part = "dial" /\ Dial!DialNext /\ UNCHANGED v10
             \/ part = "renewal" /\ Renewal!RenewalNext /\ UNCHANGED v10
             \/ part = "handshake" /\ Handshake!HandshakeNext
             \/ part = "storage" /\ Storage!TokenNext /\ UNCHANGED <<v9, v10>>
             \/ part = "enroll" /\ Enrolling!EnrollNext
             \/ /\ part = "collection" /\ Collecting!CollectionNext
                /\ UNCHANGED <<v4, v5, v6, v7, v8, v9, v10>>
             \/ part = "search" /\ Search!InterceptNext /\ UNCHANGED <<v8, v9, v10>>
          /\ UNCHANGED <<refreshVars, writeVars>>

PartsSpec == PartsInit /\ [][PartsNext]_allVars

\* Dialers and routers are interchangeable in ContextDial.
DialSymmetry == Permutations(Dialers) \cup Permutations(Routers)

-----------------------------------------------------------------------------
(* The properties of the components; each is stated in its module. Those of  *)
(* SessionRefresh and WriteAdapter hold of their initial states, in which    *)
(* the other parts leave them.                                               *)

\* Handshake: both ends of a circuit agree, and a closed host is not bound.
HandshakeAgrees == part = "handshake" => Handshake!HandshakeAgrees
\* Enroll: what an enrollment returns is what the controller enrolled.
EnrollmentAgrees == part = "enroll" => Enrolling!EnrollmentAgrees
\* Collection: the collection holds the open contexts.
CollectionHoldsOpen == part = "collection" => Collecting!CollectionHoldsOpen
\* XgressCodec and EdgeMessages: what is read is what was written, in packets
\* (Write, UnmarshallPacketPayload, tx), payload and acknowledgement messages
\* (Marshall, UnmarshallPayload, UnmarshallAcknowledgement) and edge messages.
WireRoundTrip ==
    /\ part = "packet" => Payloads!PacketsRoundTrip(v1)
    /\ part = "payload" => Payloads!PayloadRoundTrip(v1)
    /\ part = "ack" => Payloads!AcknowledgementRoundTrip(v1)
    /\ part = "message" => Messages!EdgeMessagesRoundTrip(v1)
=============================================================================
