------------------------- MODULE ConfigurationProofs ------------------------
(***************************************************************************)
(* Discovery and registration, for any origins, policies, configurations    *)
(* and metadata, and for any number of registered clients and tokens.      *)
(***************************************************************************)
EXTENDS MCConfiguration, TLAPS

(* What the operation of a client asks. *)
Operation(kind, asked) ==
  [kind |-> kind, url |-> Target(kind), asked |-> asked,
   auth |-> IF kind \in AuthenticatedKind THEN client.auth ELSE None,
   outcome |-> IF ~HasEndpoint(kind) THEN "no endpoint"
               ELSE IF Target(kind).origin \in client.origins THEN "sent"
               ELSE "stopped"]

(* What discovery asks: one document of one host, without a credential.      *)
Question(kind, o) ==
  [kind |-> kind, url |-> [origin |-> o, path |-> "plain"],
   asked |-> TRUE, auth |-> None, outcome |-> "sent"]

(* The endpoints that operations are sent to.                               *)
OperationKind == {"par", "token", "jwks", "userinfo", "revocation"}

(* The issuer is the one that the resource's host has named, if it was asked. *)
IssuerOK ==
  /\ phase \in {"start", "webfinger"} => links = None
  /\ phase \in {"found", "discovery", "client"} =>
       /\ issuer \in Origin
       /\ links # None => Len(links) = 1 /\ links[1] = issuer

(* A client is what the metadata that were admitted make of it. *)
ClientOK ==
  phase = "client" =>
    /\ document \in Document
    /\ Admits(document)
    /\ client = [origins |-> OriginsOf(document), auth |-> AuthenticationOf(document)]

(* A request is what its phase asks. *)
RequestOK ==
  request # None =>
    \/ phase = "webfinger" /\ request = Question("webfinger", Authority)
    \/ phase = "discovery" /\ request = Question("discovery", issuer)
    \/ /\ phase = "client"
       /\ \E kind \in OperationKind, asked \in BOOLEAN : request = Operation(kind, asked)

ProviderInv ==
  /\ TypeOK
  /\ config \in ConfigSet
  /\ IssuerOK /\ ClientOK /\ RequestOK

-----------------------------------------------------------------------------
(* Lemmas about what New decides.                                          *)

(* The method is one of the methods. *)
LEMMA MethodIs ==
  ASSUME config \in Config
  PROVE  MethodOf \in Method
  BY DEF Config, MethodOf, Method, SecretMethod

(* A key that is made of the secret fits the secret. *)
LEMMA HMACFits ==
  ASSUME NEW d \in Document, HMAC(d) # None
  PROVE  HMAC(d) \in DOMAIN Strength /\ config.secret >= Strength[HMAC(d)]
  <1> DEFINE offered == DOMAIN Strength \cap d.algs
             weakest == CHOOSE a \in offered : \A b \in offered : Strength[a] <= Strength[b]
  <1>1. offered # {} /\ config.secret >= Strength[weakest] /\ HMAC(d) = weakest
    BY DEF HMAC
  <1>2. /\ DOMAIN Strength = {"HS256", "HS384", "HS512"}
        /\ Strength["HS256"] = 32 /\ Strength["HS384"] = 48 /\ Strength["HS512"] = 64
    BY DEF Strength
  <1>3. \E a \in offered : \A b \in offered : Strength[a] <= Strength[b]
    <2>1. CASE "HS256" \in offered
      BY <2>1, <1>2
    <2>2. CASE "HS256" \notin offered /\ "HS384" \in offered
      BY <2>2, <1>2
    <2>3. CASE "HS256" \notin offered /\ "HS384" \notin offered
      BY <2>3, <1>1, <1>2
    <2> QED
      BY <2>1, <2>2, <2>3
  <1>4. weakest \in offered
    BY <1>3
  <1> QED
    BY <1>1, <1>4

(* So is the algorithm of an assertion, or there is none. *)
LEMMA SignerIs ==
  ASSUME config \in Config, NEW d \in Document
  PROVE  SignerOf(d) \in Algorithm \cup {None}
  <1>1. config.signer \in Algorithm \cup {None}
    BY DEF Config
  <1>2. HMAC(d) \in Algorithm \cup {None}
    BY HMACFits DEF Algorithm
  <1> QED
    BY <1>1, <1>2 DEF SignerOf

LEMMA AuthenticationIs ==
  ASSUME config \in Config, NEW d \in Document
  PROVE  AuthenticationOf(d) \in Authentication
  <1>1. SignerOf(d) \in Algorithm \cup {None}
    BY SignerIs
  <1>2. (IF MethodOf \in AssertionMethod THEN SignerOf(d) ELSE None)
          \in Algorithm \cup {None}
    BY <1>1
  <1> QED
    BY <1>2, MethodIs DEF AuthenticationOf, Authentication

(* What has been checked are URLs of the metadata. *)
LEMMA CheckedIs ==
  ASSUME NEW d \in Document, NEW e \in Checked(d)
  PROVE  e.kind \in Kind /\ e.url \in URL /\ e.url.origin \in Origin
  <1>1. \/ /\ e \in Named(d.endpoint)
           /\ d.endpoint \in [Kind -> [origin : Origin, path : {"plain"}] \cup {None}]
        \/ /\ e \in Named(d.alias)
           /\ d.alias \in [AliasKind -> [origin : Origin, path : {"alias"}] \cup {None}]
    BY DEF Checked, Document
  <1>2. AliasKind \subseteq Kind
    BY DEF AliasKind, Kind
  <1> QED
    BY <1>1, <1>2 DEF Named, URL

LEMMA OriginsAre ==
  ASSUME NEW d \in Document, issuer \in Origin
  PROVE  OriginsOf(d) \subseteq Origin
  BY CheckedIs DEF OriginsOf

(* The URL of an operation has been checked. *)
LEMMA TargetIsChecked ==
  ASSUME document \in Document, NEW kind \in Kind, Target(kind) # None
  PROVE  [kind |-> kind, url |-> Target(kind)] \in Checked(document)
  <1>1. DOMAIN document.endpoint = Kind /\ DOMAIN document.alias = AliasKind
    BY DEF Document
  <1>2. CASE Enabled("mutual TLS") /\ kind \in AliasKind /\ document.alias[kind] # None
    <2>1. Target(kind) = document.alias[kind]
      BY <1>2 DEF Target
    <2> QED
      BY <1>1, <1>2, <2>1 DEF Checked, Named
  <1>3. CASE ~(Enabled("mutual TLS") /\ kind \in AliasKind /\ document.alias[kind] # None)
    <2>1. Target(kind) = document.endpoint[kind]
      BY <1>3 DEF Target
    <2> QED
      BY <1>1, <2>1 DEF Checked, Named
  <1> QED
    BY <1>2, <1>3

(* The decisions depend on the configuration and on the issuer only. *)
LEMMA DecisionsStay ==
  ASSUME UNCHANGED <<config, issuer>>, NEW d
  PROVE  /\ Admits(d)' <=> Admits(d)
         /\ OriginsOf(d)' = OriginsOf(d)
         /\ AuthenticationOf(d)' = AuthenticationOf(d)
  <1>1. MethodOf' = MethodOf /\ Checked(d)' = Checked(d)
    BY DEF MethodOf, Checked, Named, Enabled
  <1>2. HMAC(d)' = HMAC(d)
    BY DEF HMAC
  <1>3. SignerOf(d)' = SignerOf(d)
    BY <1>1, <1>2 DEF SignerOf
  <1>4. Authenticates(d)' <=> Authenticates(d)
    BY <1>1, <1>3 DEF Authenticates, Advertised, Enabled
  <1>5. \A e \in Checked(d) :
          (ValidURL(e.url.origin) /\ Allows(e.kind, e.url))' <=>
          (ValidURL(e.url.origin) /\ Allows(e.kind, e.url))
    BY DEF ValidURL, Allows
  <1>6. \A f \in config.features : Supports(d, f)' <=> Supports(d, f)
    BY DEF Supports, Enabled
  <1>7. Admits(d)' <=> Admits(d)
    BY <1>1, <1>4, <1>5, <1>6 DEF Admits, IsOfIssuer
  <1> QED
    BY <1>1, <1>3, <1>7 DEF OriginsOf, AuthenticationOf

-----------------------------------------------------------------------------
(* A step that leaves the client and its origin. *)
LEMMA ClientStays ==
  ASSUME ProviderInv, UNCHANGED <<config, links, issuer, document, client>>, phase' = phase
  PROVE  IssuerOK' /\ ClientOK'
  <1>1. IssuerOK'
    BY DEF ProviderInv, IssuerOK
  <1>2. /\ Admits(document)' <=> Admits(document)
        /\ OriginsOf(document)' = OriginsOf(document)
        /\ AuthenticationOf(document)' = AuthenticationOf(document)
    <2> PICK d : d = document
      OBVIOUS
    <2>1. /\ Admits(d)' <=> Admits(d)
          /\ OriginsOf(d)' = OriginsOf(d)
          /\ AuthenticationOf(d)' = AuthenticationOf(d)
      BY DecisionsStay
    <2>2. document' = d
      OBVIOUS
    <2> QED
      BY <2>1, <2>2
  <1> QED
    BY <1>1, <1>2 DEF ProviderInv, ClientOK

(* A question is a request. *)
LEMMA QuestionIs ==
  ASSUME NEW kind \in {"webfinger", "discovery"}, NEW o \in Origin
  PROVE  Question(kind, o) \in Request
  BY DEF Question, Request, URL

(* The operation of a client is a request that gets through, or that has no  *)
(* endpoint.                                                               *)
LEMMA OperationIs ==
  ASSUME ProviderInv, phase = "client", NEW kind \in OperationKind, NEW asked \in BOOLEAN
  PROVE  /\ Operation(kind, asked) \in Request
         /\ HasEndpoint(kind) => Target(kind).origin \in client.origins
  <1>1. kind \in Kind
    BY DEF OperationKind, Kind
  <1>2. document \in Document /\ client.origins = OriginsOf(document)
    BY DEF ProviderInv, ClientOK
  <1>3. Target(kind) # None =>
          /\ [kind |-> kind, url |-> Target(kind)] \in Checked(document)
          /\ Target(kind) \in URL
    BY <1>1, <1>2, TargetIsChecked, CheckedIs
  <1>4. HasEndpoint(kind) => Target(kind).origin \in client.origins
    BY <1>2, <1>3 DEF HasEndpoint, OriginsOf
  <1>5. client.auth \in Authentication
    BY <1>2, AuthenticationIs DEF ProviderInv, TypeOK, ClientOK
  <1> DEFINE auth == IF kind \in AuthenticatedKind THEN client.auth ELSE None
             outcome == IF ~HasEndpoint(kind) THEN "no endpoint"
                        ELSE IF Target(kind).origin \in client.origins THEN "sent"
                        ELSE "stopped"
  <1>6. auth \in Authentication \cup {None} /\ outcome \in {"sent", "stopped", "no endpoint"}
    BY <1>5
  <1>7. Target(kind) \in URL \cup {None}
    BY <1>3
  <1>8. Operation(kind, asked) = [kind |-> kind, url |-> Target(kind), asked |-> asked,
                                  auth |-> auth, outcome |-> outcome]
    BY DEF Operation
  <1> HIDE DEF auth, outcome
  <1>9. \A k \in Kind, u \in URL \cup {None}, a \in Authentication \cup {None},
            r \in {"sent", "stopped", "no endpoint"} :
          [kind |-> k, url |-> u, asked |-> asked, auth |-> a, outcome |-> r] \in Request
    BY DEF Request
  <1>10. Operation(kind, asked) \in Request
    BY <1>1, <1>6, <1>7, <1>8, <1>9
  <1> QED
    BY <1>4, <1>10

(* A client that sends. *)
LEMMA SendStep ==
  ASSUME ProviderInv, phase = "client", NEW kind \in OperationKind, NEW asked \in BOOLEAN,
         Send(kind, asked), UNCHANGED <<phase, config, links, issuer, document, client>>
  PROVE  ProviderInv'
  <1>1. request' = Operation(kind, asked)
    BY DEF Send, Operation
  <1>2. Operation(kind, asked)' = Operation(kind, asked)
    BY DEF Operation, Target, HasEndpoint, Enabled
  <1>3. RequestOK'
    BY <1>1, <1>2 DEF RequestOK
  <1>4. TypeOK'
    BY <1>1, OperationIs DEF ProviderInv, TypeOK
  <1> QED
    BY <1>3, <1>4, ClientStays DEF ProviderInv

(* A step that leaves no request, and no new client. *)
LEMMA GiveStep ==
  ASSUME ProviderInv, request' = None, UNCHANGED <<config, document, client>>,
         links' \in Seq(Origin \cup {"empty"}) \cup {None},
         issuer' \in Origin \cup {None},
         phase' \in {"found", "failed"}, IssuerOK'
  PROVE  ProviderInv'
  BY DEF ProviderInv, TypeOK, ClientOK, RequestOK

LEMMA DiscoverIssuerStep ==
  ASSUME ProviderInv, DiscoverIssuer
  PROVE  ProviderInv'
  <1>1. /\ phase = "start" /\ phase' = "webfinger"
        /\ request' = Question("webfinger", Authority)
        /\ UNCHANGED <<config, links, issuer, document, client>>
    BY DEF DiscoverIssuer, SendTo, Question
  <1>2. TypeOK'
    BY <1>1, QuestionIs, ProviderAssumption DEF ProviderInv, TypeOK
  <1> QED
    BY <1>1, <1>2 DEF ProviderInv, IssuerOK, ClientOK, RequestOK, Question

LEMMA WebFingerStep ==
  ASSUME ProviderInv, WebFingerAnswered
  PROVE  ProviderInv'
  <1>1. PICK ls \in {<<>>} \cup {<<a>> : a \in Origin \cup {"empty"}}
                 \cup {<<a, b>> : a, b \in Origin \cup {"empty"}} :
          /\ links' = ls
          /\ IF NamesOne(ls) /\ ValidURL(ls[1])
             THEN issuer' = ls[1] /\ Give("found")
             ELSE issuer' = None /\ Give("failed")
    BY DEF WebFingerAnswered
  <1>2. UNCHANGED <<config, document, client>>
    BY DEF WebFingerAnswered
  <1>3. ls \in Seq(Origin \cup {"empty"})
    <2>1. CASE ls = <<>>
      BY <2>1
    <2>2. ASSUME NEW a \in Origin \cup {"empty"}, ls = <<a>>
          PROVE  ls \in Seq(Origin \cup {"empty"})
      BY <2>2
    <2>3. ASSUME NEW a \in Origin \cup {"empty"}, NEW b \in Origin \cup {"empty"},
                 ls = <<a, b>>
          PROVE  ls \in Seq(Origin \cup {"empty"})
      BY <2>3
    <2> QED
      BY <2>1, <2>2, <2>3, <1>1
  <1>4. NamesOne(ls) => Len(ls) = 1 /\ ls[1] \in Origin
    BY <1>3 DEF NamesOne
  <1>5. /\ request' = None /\ phase' \in {"found", "failed"}
        /\ issuer' \in Origin \cup {None}
        /\ links' \in Seq(Origin \cup {"empty"}) \cup {None}
    BY <1>1, <1>3, <1>4 DEF Give
  <1>6. IssuerOK'
    BY <1>1, <1>4 DEF Give, IssuerOK
  <1> QED
    BY <1>2, <1>5, <1>6, GiveStep

LEMMA NewStep ==
  ASSUME ProviderInv, New
  PROVE  ProviderInv'
  <1>1. /\ phase \in {"start", "found"} /\ phase' = "discovery"
        /\ issuer' \in Origin
        /\ phase = "found" => issuer' = issuer
        /\ request' = Question("discovery", issuer')
        /\ UNCHANGED <<config, links, document, client>>
    BY DEF New, SendTo, Question, ProviderInv, IssuerOK
  <1>2. TypeOK'
    BY <1>1, QuestionIs DEF ProviderInv, TypeOK
  <1>3. IssuerOK'
    BY <1>1 DEF ProviderInv, IssuerOK
  <1> QED
    BY <1>1, <1>2, <1>3 DEF ProviderInv, ClientOK, RequestOK, Question

LEMMA DiscoveryStep ==
  ASSUME ProviderInv, DiscoveryAnswered
  PROVE  ProviderInv'
  <1>1. /\ phase = "discovery" /\ config \in Config
        /\ issuer \in Origin
        /\ UNCHANGED <<config, links, issuer>>
    BY DEF DiscoveryAnswered, ProviderInv, TypeOK, IssuerOK
  <1>2. PICK d \in Published(config) :
          IF Admits(d)
          THEN /\ document' = d
               /\ client' = [origins |-> OriginsOf(d), auth |-> AuthenticationOf(d)]
               /\ Give("client")
          ELSE UNCHANGED <<document, client>> /\ Give("failed")
    BY DEF DiscoveryAnswered
  <1>3. CASE ~Admits(d)
    <2>1. UNCHANGED <<document, client>> /\ phase' = "failed" /\ request' = None
      BY <1>2, <1>3 DEF Give
    <2>2. IssuerOK'
      BY <2>1 DEF IssuerOK
    <2>3. /\ links' \in Seq(Origin \cup {"empty"}) \cup {None}
          /\ issuer' \in Origin \cup {None}
      BY <1>1 DEF ProviderInv, TypeOK
    <2> QED
      BY <1>1, <2>1, <2>2, <2>3, GiveStep
  <1>4. CASE Admits(d)
    <2>1. /\ document' = d /\ phase' = "client" /\ request' = None
          /\ client' = [origins |-> OriginsOf(d), auth |-> AuthenticationOf(d)]
      BY <1>2, <1>4 DEF Give
    <2>2. d \in Document
      BY <1>1, <1>2, ProviderAssumption DEF ProviderInv
    <2>3. client' \in ClientRecord
      BY <1>1, <2>1, <2>2, OriginsAre, AuthenticationIs DEF ClientRecord
    <2>4. d.issuer = issuer
      BY <1>4 DEF Admits, IsOfIssuer
    <2>5. TypeOK'
      BY <1>1, <2>1, <2>2, <2>3, <2>4, ProviderAssumption DEF ProviderInv, TypeOK
    <2>6. IssuerOK'
      BY <1>1, <2>1 DEF ProviderInv, IssuerOK
    <2>7. ClientOK'
      <3>1. /\ Admits(d)' <=> Admits(d)
            /\ OriginsOf(d)' = OriginsOf(d)
            /\ AuthenticationOf(d)' = AuthenticationOf(d)
        BY <1>1, DecisionsStay
      <3> QED
        BY <3>1, <2>1, <2>2, <1>4 DEF ClientOK
    <2>8. RequestOK'
      BY <2>1 DEF RequestOK
    <2> QED
      BY <1>1, <2>5, <2>6, <2>7, <2>8 DEF ProviderInv
  <1> QED
    BY <1>3, <1>4

(* The request of a client is over, or nothing happens. *)
LEMMA ReturnStep ==
  ASSUME ProviderInv, UNCHANGED <<phase, config, links, issuer, document, client>>,
         request' \in {request, None}
  PROVE  ProviderInv'
  <1>1. \A kind, asked : Operation(kind, asked)' = Operation(kind, asked)
    BY DEF Operation, Target, HasEndpoint, Enabled
  <1>2. RequestOK'
    BY <1>1 DEF ProviderInv, RequestOK, Question
  <1>3. TypeOK'
    BY DEF ProviderInv, TypeOK
  <1> QED
    BY <1>2, <1>3, ClientStays DEF ProviderInv

LEMMA RedirectedStep ==
  ASSUME ProviderInv, NEW o \in Origin, Redirected(o)
  PROVE  ProviderInv'
  <1>1. /\ request' = None
        /\ phase' = IF phase = "client" THEN "client" ELSE "failed"
        /\ UNCHANGED <<config, links, issuer, document, client>>
    BY DEF Redirected, Follows, Give
  <1>2. CASE phase = "client"
    BY <1>1, <1>2, ReturnStep
  <1>3. CASE phase # "client"
    <2>1. IssuerOK'
      BY <1>1, <1>3 DEF IssuerOK
    <2> QED
      BY <1>1, <1>3, <2>1, GiveStep DEF ProviderInv, TypeOK
  <1> QED
    BY <1>2, <1>3

-----------------------------------------------------------------------------
LEMMA ProviderStarts == Init => ProviderInv
  BY ProviderAssumption DEF Init, ProviderInv, TypeOK, IssuerOK, ClientOK, RequestOK

LEMMA ProviderSteps == ProviderInv /\ [Next]_vars => ProviderInv'
  <1> SUFFICES ASSUME ProviderInv, [Next]_vars PROVE ProviderInv'
    OBVIOUS
  <1>1. CASE DiscoverIssuer
    BY <1>1, DiscoverIssuerStep
  <1>2. CASE WebFingerAnswered
    BY <1>2, WebFingerStep
  <1>3. CASE New
    BY <1>3, NewStep
  <1>4. CASE DiscoveryAnswered
    BY <1>4, DiscoveryStep
  <1>5. ASSUME NEW usePAR \in BOOLEAN, Begin(usePAR) PROVE ProviderInv'
    BY <1>5, SendStep DEF Begin, OperationKind
  <1>6. ASSUME NEW kind \in Kind, Operate(kind) PROVE ProviderInv'
    BY <1>6, SendStep DEF Operate, OperationKind
  <1>7. CASE Return
    BY <1>7, ReturnStep DEF Return
  <1>8. ASSUME NEW o \in Origin, Redirected(o) PROVE ProviderInv'
    BY <1>8, RedirectedStep
  <1>9. CASE UNCHANGED vars
    BY <1>9, ReturnStep DEF vars
  <1> QED
    BY <1>1, <1>2, <1>3, <1>4, <1>5, <1>6, <1>7, <1>8, <1>9 DEF Next

THEOREM ProviderInvariant == Spec => []ProviderInv
  BY ProviderStarts, ProviderSteps, PTL DEF Spec

(* What a client has sent. *)
LEMMA SentIs ==
  ASSUME ProviderInv, Sent, request.kind \notin {"webfinger", "discovery"}
  PROVE  /\ phase = "client" /\ request.kind \in OperationKind
         /\ request.url = Target(request.kind) /\ request.url # None
         /\ request.auth = IF request.kind \in AuthenticatedKind THEN client.auth ELSE None
         /\ [kind |-> request.kind, url |-> request.url] \in Checked(document)
  <1>1. phase = "client"
    BY DEF ProviderInv, RequestOK, Sent, Question
  <1>2. PICK kind \in OperationKind, asked \in BOOLEAN : request = Operation(kind, asked)
    BY <1>1 DEF ProviderInv, RequestOK, Sent
  <1>3. /\ request.kind = kind /\ request.url = Target(kind)
        /\ request.auth = IF kind \in AuthenticatedKind THEN client.auth ELSE None
        /\ request.outcome = IF ~HasEndpoint(kind) THEN "no endpoint"
                             ELSE IF Target(kind).origin \in client.origins THEN "sent"
                             ELSE "stopped"
    BY <1>2 DEF Operation
  <1>4. HasEndpoint(kind)
    BY <1>3 DEF Sent
  <1>5. Target(kind) # None /\ kind \in Kind
    BY <1>4 DEF HasEndpoint, OperationKind, Kind
  <1>6. document \in Document
    BY <1>1 DEF ProviderInv, ClientOK
  <1> QED
    BY <1>1, <1>3, <1>5, <1>6, TargetIsChecked

(* Every request goes to the host that was named, to the issuer that host    *)
(* has named or to an endpoint that the policy admits, and an alias replaces *)
(* its endpoint exactly when mutual TLS is enabled (discovery.go:83-99,     *)
(* provider.go:210-276, 323-339).                                           *)
THEOREM ProviderDestinations == Spec => []DestinationsAreVouched
  <1>1. ProviderInv => IssuerIsVouched
    <2> SUFFICES ASSUME ProviderInv, phase = "client", links # None
                 PROVE  /\ {links[i] : i \in 1 .. Len(links)} = {issuer}
                        /\ document.issuer = issuer
      BY DEF IssuerIsVouched
    <2>1. Len(links) = 1 /\ links[1] = issuer
      BY DEF ProviderInv, IssuerOK
    <2>2. document.issuer = issuer
      BY DEF ProviderInv, TypeOK
    <2> QED
      BY <2>1, <2>2
  <1>2. ProviderInv => OnlyAdmitted
    <2> SUFFICES ASSUME ProviderInv, Sent PROVE OnlyAdmitted
      BY DEF OnlyAdmitted
    <2>1. CASE request.kind \notin {"webfinger", "discovery"}
      <3>1. /\ phase = "client" /\ request.url = Target(request.kind)
            /\ [kind |-> request.kind, url |-> request.url] \in Checked(document)
        BY <2>1, SentIs
      <3>2. Allows(request.kind, request.url) /\ ValidURL(request.url.origin)
        BY <3>1 DEF ProviderInv, ClientOK, Admits
      <3>3. request.url \in {document.endpoint[request.kind]} \cup
              {document.alias[k] : k \in {request.kind} \cap AliasKind}
        BY <3>1 DEF Target
      <3> QED
        BY <2>1, <3>2, <3>3 DEF OnlyAdmitted
    <2>2. CASE request.kind \in {"webfinger", "discovery"}
      <3>1. ~(phase = "client")
        <4>1. \A kind, asked : Operation(kind, asked).kind = kind
          BY DEF Operation
        <4> QED
          BY <2>2, <4>1 DEF ProviderInv, RequestOK, OperationKind, Sent
      <3>2. request # None
        BY DEF Sent
      <3>3. \/ request = Question("webfinger", Authority)
            \/ request = Question("discovery", issuer)
        BY <3>1, <3>2 DEF ProviderInv, RequestOK
      <3>4. CASE request = Question("webfinger", Authority)
        <4>1. request.kind = "webfinger" /\ request.url = [origin |-> Authority, path |-> "plain"]
          BY <3>4 DEF Question
        <4> QED
          BY <4>1 DEF OnlyAdmitted
      <3>5. CASE request = Question("discovery", issuer)
        <4>1. request.kind = "discovery" /\ request.url = [origin |-> issuer, path |-> "plain"]
          BY <3>5 DEF Question
        <4> QED
          BY <4>1 DEF OnlyAdmitted
      <3> QED
        BY <3>3, <3>4, <3>5
    <2> QED
      BY <2>1, <2>2
  <1>3. ProviderInv => AliasesAreEnforced
    <2> SUFFICES ASSUME ProviderInv, Sent, request.kind \in AliasKind
                 PROVE  request.url.path = "alias" <=>
                          Enabled("mutual TLS") /\ document.alias[request.kind] # None
      BY DEF AliasesAreEnforced
    <2>1. /\ phase = "client" /\ request.kind \in Kind
          /\ request.url = Target(request.kind) /\ request.url # None
      BY SentIs DEF AliasKind, Kind
    <2>2. /\ document.endpoint \in [Kind -> [origin : Origin, path : {"plain"}] \cup {None}]
          /\ document.alias \in [AliasKind -> [origin : Origin, path : {"alias"}] \cup {None}]
      BY <2>1 DEF ProviderInv, ClientOK, Document
    <2> QED
      BY <2>1, <2>2 DEF Target
  <1> QED
    BY <1>1, <1>2, <1>3, ProviderInvariant, PTL DEF DestinationsAreVouched

(* A client that was admitted works: no operation is stopped at the          *)
(* transport, and what is required has an endpoint (provider.go:210-278).   *)
THEOREM ProviderAdmittedWorks == Spec => []AdmittedWorks
  <1>1. ASSUME ProviderInv, phase = "client", request # None
        PROVE  /\ request.outcome # "stopped"
               /\ (request.kind \in {"token", "jwks"} \/
                   (request.kind = "par" /\ Enabled("PAR"))) => request.outcome = "sent"
    <2>1. PICK kind \in OperationKind, asked \in BOOLEAN : request = Operation(kind, asked)
      BY <1>1 DEF ProviderInv, RequestOK
    <2>2. /\ request.kind = kind
          /\ request.outcome = IF ~HasEndpoint(kind) THEN "no endpoint"
                               ELSE IF Target(kind).origin \in client.origins THEN "sent"
                               ELSE "stopped"
      BY <2>1 DEF Operation
    <2>3. HasEndpoint(kind) => Target(kind).origin \in client.origins
      BY <1>1, OperationIs
    <2>4. Admits(document)
      BY <1>1 DEF ProviderInv, ClientOK
    <2>5. kind \in {"token", "jwks"} => document.endpoint[kind] # None
      BY <2>4 DEF Admits, RequiredKind
    <2>6. kind = "par" /\ Enabled("PAR") => document.endpoint[kind] # None
      BY <2>4 DEF Admits, Supports, Enabled
    <2>7. document.endpoint[kind] # None /\ kind # "revocation" => HasEndpoint(kind)
      BY DEF HasEndpoint, Target
    <2> QED
      BY <2>2, <2>3, <2>5, <2>6, <2>7
  <1>2. ProviderInv => AdmittedWorks
    BY <1>1 DEF AdmittedWorks
  <1> QED
    BY <1>2, ProviderInvariant, PTL

(* A request carries the credential that the provider advertises and that    *)
(* the secret is strong enough for, and only where one is due               *)
(* (provider.go:356-415, endpoint_client.go:164-182).                       *)
THEOREM ProviderCredential == Spec => []CredentialFits
  <1>1. ASSUME ProviderInv, phase = "client"
        PROVE  /\ client.auth.method \in document.methods \cup
                    {m \in {"client_secret_basic"} : document.methods = {}}
               /\ (client.auth.alg \in DOMAIN Strength /\ config.signer = None)
                    => config.secret >= Strength[client.auth.alg]
               /\ client.auth.method = "tls_client_auth" => Enabled("mutual TLS")
    <2>1. /\ document \in Document /\ Authenticates(document)
          /\ client.auth = AuthenticationOf(document)
      BY <1>1 DEF ProviderInv, ClientOK, Admits
    <2>2. /\ client.auth.method = MethodOf
          /\ client.auth.alg = IF MethodOf \in AssertionMethod
                               THEN SignerOf(document) ELSE None
      BY <2>1 DEF AuthenticationOf
    <2>3. MethodOf \in Advertised(document)
      BY <2>1 DEF Authenticates
    <2>4. MethodOf = "tls_client_auth" => Enabled("mutual TLS")
      BY <2>1 DEF Authenticates
    <2>5. ASSUME client.auth.alg \in DOMAIN Strength, config.signer = None
          PROVE  config.secret >= Strength[client.auth.alg]
      <3>1. None \notin DOMAIN Strength
        BY ProviderAssumption DEF Algorithm
      <3>2. MethodOf \in AssertionMethod /\ client.auth.alg = SignerOf(document)
        BY <2>2, <2>5, <3>1
      <3>3. SignerOf(document) # None
        BY <2>1, <3>2 DEF Authenticates
      <3>4. SignerOf(document) = HMAC(document)
        BY <2>5, <3>3 DEF SignerOf
      <3> QED
        BY <2>1, <3>2, <3>3, <3>4, HMACFits
    <2> QED
      BY <2>2, <2>3, <2>4, <2>5 DEF Advertised
  <1>2. ASSUME ProviderInv, Sent
        PROVE  IF request.kind \notin AuthenticatedKind THEN request.auth = None
               ELSE phase = "client" /\ request.auth = client.auth
    <2>1. CASE request.kind \notin {"webfinger", "discovery"}
      BY <1>2, <2>1, SentIs
    <2>2. CASE request.kind \in {"webfinger", "discovery"}
      <3>1. \A kind, asked : Operation(kind, asked).kind = kind
        BY DEF Operation
      <3>2. \A kind, o : Question(kind, o).auth = None
        BY DEF Question
      <3>3. request.auth = None
        BY <1>2, <2>2, <3>1, <3>2 DEF ProviderInv, RequestOK, OperationKind, Sent
      <3> QED
        BY <2>2, <3>3 DEF AuthenticatedKind
    <2> QED
      BY <2>1, <2>2
  <1>3. ProviderInv => CredentialFits
    BY <1>1, <1>2 DEF CredentialFits
  <1> QED
    BY <1>3, ProviderInvariant, PTL

-----------------------------------------------------------------------------
(* Registration.  What is said of a client needs what is said of the calls   *)
(* and of the answers that are under way.                                  *)

(* The calls that manage a registration, and a call that was answered well.  *)
Managing == {"GET", "PUT", "DELETE"}

Answered == call.answer # None /\ call.answer.success

(* The library manages with a token. *)
Managed(q) == q.method \in Managing => q.token # 0 /\ q.client \in Client

RequestsAreManaged ==
  /\ \A q \in late : Managed(q)
  /\ call # Registry!Idle => Managed(call.request)

(* The registration stays as long as a call is under way. *)
CallIsAbout ==
  call # Registry!Idle =>
    IF call.request.method = "POST" THEN record = None
    ELSE record # None /\ record.client = call.request.client

(* A client that is gone, and whose name is not free for another one. *)
Gone(k) == ~server[k].live /\ server[k].token # 0

(* The clients there are, as the caller knows them: token, version.         *)
Known(k, c, t, v) ==
  server[k].live => k = c /\ t = server[k].token /\ v = server[k].version

(* Without a failure: what lives is what the record says or, with an answer   *)
(* on its way, what the answer says.                                        *)
CallerInv ==
  ~failed =>
    /\ late = {}
    /\ call.answer = None =>
         IF record = None THEN \A k \in Client : ~server[k].live
         ELSE \A k \in Client : Known(k, record.client, record.token, record.version)
    /\ Answered =>
         IF call.request.method = "DELETE" THEN \A k \in Client : ~server[k].live
         ELSE \A k \in Client :
                Known(k, call.answer.client, call.answer.token, call.answer.version)

(* A good answer is about the client that was asked for, with a token.       *)
AnswerInv ==
  Answered =>
    /\ call.answer.client \in Client /\ call.answer.uri \in URI
    /\ call.request.method \in Managing =>
         call.answer.client = call.request.client /\ call.answer.token # 0
    /\ call.request.method = "DELETE" => Gone(call.request.client)

RegistrationInv ==
  /\ Registry!TypeOK
  /\ RequestsAreManaged /\ CallIsAbout
  /\ \A k \in deleted : Gone(k)
  /\ AnswerInv /\ CallerInv

(* The records of the provider and the requests. *)
LEMMA RecordsAre ==
  ASSUME Registry!TypeOK
  PROVE  /\ \A k \in Client : server[k] \in [live : BOOLEAN, token : 0 .. MaxToken,
                                             version : 0 .. MaxVersion]
         /\ call # Registry!Idle =>
              /\ call \in [request : Registry!Request, answer : Registry!Answer \cup {None}]
              /\ call.request \in Registry!Request
         /\ call = Registry!Idle => call.answer = None
         /\ 0 \in 0 .. MaxToken /\ 0 \in 0 .. MaxVersion
  BY RegistrationAssumption
     DEF Registry!TypeOK, Registry!ServerRecord, Registry!Token, Registry!Version, Registry!Idle

(* The token that an answer gives is the one that the provider takes next. *)
LEMMA NextTokenIs ==
  ASSUME Registry!TypeOK, NEW old \in 0 .. MaxToken, NEW t, Registry!NextToken(old, t)
  PROVE  /\ t \in 0 .. MaxToken /\ issued' \in 0 .. MaxToken
         /\ old # 0 => t # 0
  BY RegistrationAssumption DEF Registry!TypeOK, Registry!NextToken, Registry!Token

(* What a request does to the records of the provider. *)
LEMMA ExecutesDoes ==
  ASSUME Registry!TypeOK, NEW q \in Registry!Request, Managed(q), NEW k, NEW t,
         Registry!Executes(q, k, t)
  PROVE  /\ k \in Client /\ t \in 0 .. MaxToken /\ issued' \in 0 .. MaxToken
         /\ server' \in [Client -> Registry!ServerRecord]
         /\ \A j \in Client \ {k} : server'[j] = server[j]
         /\ q.method = "POST" => server[k].token = 0
         /\ q.method # "POST" => k = q.client /\ server[k].live /\ t # 0
         /\ q.method # "DELETE" => server'[k].live /\ server'[k].token = t
         /\ q.method = "DELETE" => ~server'[k].live /\ server'[k].token # 0
  <1>1. /\ q.token \in 0 .. MaxToken /\ q.version \in 0 .. MaxVersion
        /\ q.method \in {"POST", "GET", "PUT", "DELETE"}
        /\ q.method # "POST" => q.token # 0 /\ q.client \in Client
    BY DEF Registry!Request, Registry!Method, Registry!Token, Registry!Version,
           Managed, Managing
  <1>2. server \in [Client -> Registry!ServerRecord]
    BY DEF Registry!TypeOK
  <1>3. \A b \in BOOLEAN, x \in 0 .. MaxToken, v \in 0 .. MaxVersion :
          [live |-> b, token |-> x, version |-> v] \in Registry!ServerRecord
    BY DEF Registry!ServerRecord, Registry!Token, Registry!Version
  <1>4. CASE q.method = "POST"
    <2>1. /\ k \in Client /\ server[k] = Registry!Nowhere
          /\ Registry!NextToken(0, t)
          /\ server' = [server EXCEPT ![k] = [live |-> TRUE, token |-> t,
                                              version |-> q.version]]
      BY <1>4 DEF Registry!Executes
    <2>2. t \in 0 .. MaxToken /\ issued' \in 0 .. MaxToken
      BY <2>1, NextTokenIs, RecordsAre
    <2>3. [live |-> TRUE, token |-> t, version |-> q.version] \in Registry!ServerRecord
      BY <1>1, <1>3, <2>2
    <2> QED
      BY <1>2, <1>4, <2>1, <2>2, <2>3 DEF Registry!Nowhere
  <1>5. CASE q.method \in {"GET", "PUT"}
    <2>1. /\ k = q.client /\ server[k].live /\ Registry!NextToken(q.token, t)
          /\ server' = [server EXCEPT ![k].token = t,
                                      ![k].version = IF q.method = "PUT" THEN q.version
                                                                         ELSE @]
      BY <1>5 DEF Registry!Executes, Registry!Authorized
    <2>2. t \in 0 .. MaxToken /\ issued' \in 0 .. MaxToken /\ t # 0 /\ k \in Client
      BY <1>1, <1>5, <2>1, NextTokenIs
    <2>3. PICK v \in 0 .. MaxVersion :
            v = IF q.method = "PUT" THEN q.version ELSE server[k].version
      BY <1>1, <2>2, RecordsAre
    <2>4. /\ server'[k] = [server[k] EXCEPT !.token = t, !.version = v]
          /\ \A j \in Client \ {k} : server'[j] = server[j]
          /\ server' = [server EXCEPT ![k] = server'[k]]
      BY <1>2, <2>1, <2>2, <2>3
    <2>5. server[k] \in Registry!ServerRecord
      BY <1>2, <2>2
    <2>6. server'[k] \in Registry!ServerRecord /\ server'[k].live /\ server'[k].token = t
      <3>1. server[k] = [live |-> server[k].live, token |-> server[k].token,
                         version |-> server[k].version]
        BY <2>5 DEF Registry!ServerRecord
      <3>2. server'[k] = [live |-> server[k].live, token |-> t, version |-> v]
        BY <3>1, <2>4
      <3>3. server[k].live \in BOOLEAN
        BY <2>5 DEF Registry!ServerRecord
      <3>4. server'[k] \in Registry!ServerRecord
        BY <3>2, <3>3, <1>3, <2>2, <2>3
      <3> QED
        BY <3>2, <3>4, <2>1
    <2> QED
      BY <1>2, <1>5, <2>1, <2>2, <2>4, <2>6
  <1>6. CASE q.method = "DELETE"
    <2>1. /\ k = q.client /\ server[k].live /\ server[k].token = q.token
          /\ Registry!NextToken(q.token, t)
          /\ server' = [server EXCEPT ![k].live = FALSE]
      BY <1>6 DEF Registry!Executes, Registry!Authorized
    <2>2. t \in 0 .. MaxToken /\ issued' \in 0 .. MaxToken /\ t # 0 /\ k \in Client
      BY <1>1, <1>6, <2>1, NextTokenIs
    <2>3. /\ server'[k] = [server[k] EXCEPT !.live = FALSE]
          /\ \A j \in Client \ {k} : server'[j] = server[j]
          /\ server' = [server EXCEPT ![k] = server'[k]]
      BY <1>2, <2>1, <2>2
    <2>4. server[k] \in Registry!ServerRecord
      BY <1>2, <2>2
    <2>5. /\ server'[k] \in Registry!ServerRecord
          /\ ~server'[k].live /\ server'[k].token = server[k].token
      BY <2>3, <2>4 DEF Registry!ServerRecord
    <2> QED
      BY <1>1, <1>2, <1>6, <2>1, <2>2, <2>3, <2>5
  <1> QED
    BY <1>1, <1>4, <1>5, <1>6

(* What is gone stays gone. *)
LEMMA GoneStays ==
  ASSUME Registry!TypeOK, NEW q \in Registry!Request, Managed(q), NEW k, NEW t,
         Registry!Executes(q, k, t), NEW j \in Client, Gone(j)
  PROVE  Gone(j)'
  <1>1. j # k
    BY ExecutesDoes DEF Gone
  <1> QED
    BY <1>1, ExecutesDoes DEF Gone

-----------------------------------------------------------------------------
(* A call that begins. *)
LEMMA SendCall ==
  ASSUME RegistrationInv, NEW method \in Registry!Method, NEW r, NEW v \in 0 .. MaxVersion,
         Registry!Send(method, r, v),
         version' \in 0 .. MaxVersion,
         \/ method = "POST" /\ r = None /\ record = None
         \/ method # "POST" /\ record # None /\ r = record /\ Registry!Manageable(record)
  PROVE  RegistrationInv'
  <1> PICK q : q = [method |-> method, version |-> v,
                    client |-> IF r = None THEN None ELSE r.client,
                    token |-> IF r = None THEN 0 ELSE r.token]
    OBVIOUS
  <1>1. /\ call = Registry!Idle /\ call.answer = None
        /\ call' = [request |-> q, answer |-> None]
        /\ UNCHANGED <<server, issued, record, late, failed, deleted>>
    BY DEF Registry!Send, Registry!Idle
  <1>2. record # None => record \in Registry!Registered
    BY DEF RegistrationInv, Registry!TypeOK
  <1>3. /\ q \in Registry!Request /\ q.method = method
        /\ method # "POST" => q.client = record.client /\ q.client \in Client /\ q.token # 0
    BY <1>2, RecordsAre
       DEF Registry!Request, Registry!Registered, Registry!Token, Registry!Version,
           Registry!Manageable, RegistrationInv
  <1>4. call' # Registry!Idle /\ call'.request = q /\ call'.answer = None
    BY <1>1, <1>3, RegistrationAssumption DEF Registry!Idle
  <1>5. Registry!TypeOK'
    BY <1>1, <1>3 DEF RegistrationInv, Registry!TypeOK, Registry!Version
  <1>6. RequestsAreManaged'
    BY <1>1, <1>3, <1>4 DEF RegistrationInv, RequestsAreManaged, Managed, Managing
  <1>7. CallIsAbout'
    BY <1>1, <1>3, <1>4 DEF CallIsAbout
  <1>8. AnswerInv'
    BY <1>4 DEF AnswerInv, Answered
  <1>9. CallerInv'
    BY <1>1, <1>4 DEF RegistrationInv, CallerInv, Answered, Known
  <1> QED
    BY <1>1, <1>5, <1>6, <1>7, <1>8, <1>9 DEF RegistrationInv, Gone

(* A call that is over and has an error. *)
LEMMA FailsCall ==
  ASSUME RegistrationInv, Registry!Fails, call' = Registry!Idle,
         UNCHANGED <<server, issued, version>>,
         late' \subseteq Registry!Request, \A q \in late' : Managed(q)
  PROVE  RegistrationInv'
  <1>1. failed' = TRUE /\ UNCHANGED <<record, deleted>> /\ call'.answer = None
    BY DEF Registry!Fails, Registry!Idle
  <1>2. Registry!TypeOK'
    BY <1>1 DEF RegistrationInv, Registry!TypeOK
  <1> QED
    BY <1>1, <1>2 DEF RegistrationInv, RequestsAreManaged, CallIsAbout, AnswerInv,
                      CallerInv, Answered, Gone

LEMMA ReturnCall ==
  ASSUME RegistrationInv, Registry!Return
  PROVE  RegistrationInv'
  <1> DEFINE a == call.answer
  <1>1. /\ a # None /\ call' = Registry!Idle
        /\ UNCHANGED <<server, issued, version, late>>
    BY DEF Registry!Return
  <1>2. /\ call # Registry!Idle /\ a \in Registry!Answer
        /\ call.request \in Registry!Request /\ Managed(call.request)
    BY <1>1, RecordsAre DEF RegistrationInv, RequestsAreManaged
  <1>3. /\ late' \subseteq Registry!Request /\ \A q \in late' : Managed(q)
        /\ call'.answer = None
    BY <1>1 DEF RegistrationInv, RequestsAreManaged, Registry!TypeOK, Registry!Idle
  <1>4. CASE Registry!Fails
    BY <1>1, <1>3, <1>4, FailsCall
  <1>5. ASSUME UNCHANGED failed, a.success,
               record' \in Registry!Registered \cup {None},
               record' # None /\ record'.uri # "none" => record'.token # 0,
               deleted' \subseteq Client, \A k \in deleted' : Gone(k),
               ~failed =>
                 IF record' = None THEN \A k \in Client : ~server[k].live
                 ELSE \A k \in Client :
                        Known(k, record'.client, record'.token, record'.version)
        PROVE  RegistrationInv'
    <2>1. Registry!TypeOK'
      BY <1>1, <1>3, <1>5 DEF RegistrationInv, Registry!TypeOK
    <2>2. RequestsAreManaged' /\ CallIsAbout' /\ AnswerInv'
      BY <1>1, <1>3 DEF RequestsAreManaged, CallIsAbout, AnswerInv, Answered
    <2>3. CallerInv'
      BY <1>1, <1>3, <1>5 DEF RegistrationInv, CallerInv, Known, Answered
    <2> QED
      BY <1>1, <1>5, <2>1, <2>2, <2>3 DEF RegistrationInv, Gone
  <1>6. ASSUME a.success
        PROVE  /\ a.client \in Client /\ a.uri \in URI
               /\ call.request.method \in Managing =>
                    a.client = call.request.client /\ a.token # 0
               /\ call.request.method = "DELETE" => Gone(call.request.client)
               /\ ~failed =>
                    IF call.request.method = "DELETE" THEN \A k \in Client : ~server[k].live
                    ELSE \A k \in Client : Known(k, a.client, a.token, a.version)
    BY <1>1, <1>6 DEF RegistrationInv, AnswerInv, CallerInv, Answered
  <1>7. a.token \in 0 .. MaxToken /\ a.version \in 0 .. MaxVersion
    BY <1>2 DEF Registry!Answer, Registry!Token, Registry!Version
  <1>8. \A c \in Client, t \in 0 .. MaxToken, u \in URI, v \in 0 .. MaxVersion :
          [client |-> c, token |-> t, uri |-> u, version |-> v] \in Registry!Registered
    BY DEF Registry!Registered, Registry!Token, Registry!Version
  <1>9. \A k \in deleted : Gone(k)
    BY DEF RegistrationInv
  <1>10. CASE call.request.method = "POST" /\ ~Registry!Fails
    <2>1. /\ Registry!Registers(a) /\ UNCHANGED <<failed, deleted>>
          /\ record' = [client |-> a.client, token |-> a.token, uri |-> a.uri,
                        version |-> a.version]
      BY <1>10 DEF Registry!Return
    <2>2. /\ a.success
          /\ a.uri # "none" => a.token # 0
      BY <2>1 DEF Registry!Registers
    <2>3. record' \in Registry!Registered
      BY <2>1, <2>2, <1>6, <1>7, <1>8
    <2>4. /\ record' # None
          /\ record'.client = a.client /\ record'.token = a.token
          /\ record'.uri = a.uri /\ record'.version = a.version
      BY <2>1, <2>3, RegistrationAssumption
    <2>5. deleted' \subseteq Client
      BY <2>1 DEF RegistrationInv, Registry!TypeOK
    <2> QED
      BY <2>1, <2>2, <2>3, <2>4, <2>5, <1>5, <1>6, <1>9, <1>10
  <1>11. CASE call.request.method \in {"GET", "PUT"} /\ ~Registry!Fails
    <2>1. /\ a.success /\ UNCHANGED <<failed, deleted>>
          /\ record' = [record EXCEPT !.token = a.token, !.version = a.version]
      BY <1>11 DEF Registry!Return, Registry!Represented
    <2>2. record \in Registry!Registered /\ record.client = call.request.client
      BY <1>2, <1>11 DEF RegistrationInv, Registry!TypeOK, CallIsAbout
    <2>3. record' = [client |-> record.client, token |-> a.token, uri |-> record.uri,
                     version |-> a.version]
      BY <2>1, <2>2 DEF Registry!Registered
    <2>4. record.client \in Client /\ record.uri \in URI
      BY <2>2 DEF Registry!Registered
    <2>5. record' \in Registry!Registered
      BY <2>3, <2>4, <1>7, <1>8
    <2>6. /\ record' # None
          /\ record'.client = record.client /\ record'.token = a.token
          /\ record'.version = a.version
      BY <2>3, <2>5, RegistrationAssumption
    <2>7. a.client = record.client /\ a.token # 0
      BY <1>6, <1>11, <2>1, <2>2 DEF Managing
    <2>8. deleted' \subseteq Client
      BY <2>1 DEF RegistrationInv, Registry!TypeOK
    <2> QED
      BY <2>1, <2>5, <2>6, <2>7, <2>8, <1>5, <1>6, <1>9, <1>11
  <1>12. CASE call.request.method = "DELETE" /\ ~Registry!Fails
    <2>1. /\ a.success /\ record' = None /\ UNCHANGED failed
          /\ deleted' = deleted \cup {call.request.client}
      BY <1>12 DEF Registry!Return, Registry!Deletes
    <2>2. call.request.client \in Client
      BY <1>2, <1>12 DEF Managed, Managing
    <2>3. deleted' \subseteq Client /\ \A k \in deleted' : Gone(k)
      BY <2>1, <2>2, <1>6, <1>9, <1>12 DEF RegistrationInv, Registry!TypeOK
    <2> QED
      BY <2>1, <2>3, <1>5, <1>6, <1>12
  <1>13. call.request.method \in {"POST", "GET", "PUT", "DELETE"}
    BY <1>2 DEF Registry!Request, Registry!Method
  <1> QED
    BY <1>4, <1>10, <1>11, <1>12, <1>13

LEMMA BreakCall ==
  ASSUME RegistrationInv, Registry!Break
  PROVE  RegistrationInv'
  <1>1. /\ call # Registry!Idle /\ call' = Registry!Idle
        /\ late' \subseteq late \cup {call.request}
        /\ Registry!Fails /\ UNCHANGED <<server, issued, version>>
    BY DEF Registry!Break
  <1>2. call.request \in Registry!Request /\ Managed(call.request)
    BY <1>1, RecordsAre DEF RegistrationInv, RequestsAreManaged
  <1>3. late' \subseteq Registry!Request /\ \A q \in late' : Managed(q)
    BY <1>1, <1>2 DEF RegistrationInv, RequestsAreManaged, Registry!TypeOK
  <1> QED
    BY <1>1, <1>3, FailsCall

(* The provider executes a request and answers. *)
LEMMA ExecuteCall ==
  ASSUME RegistrationInv, Registry!Execute
  PROVE  RegistrationInv'
  <1> DEFINE q == call.request
  <1>1. /\ call # Registry!Idle /\ call.answer = None
        /\ UNCHANGED <<version, record, late, failed, deleted>>
    BY DEF Registry!Execute
  <1>2. PICK k \in Client, t \in Registry!Token, u \in URI, r \in BOOLEAN :
          /\ Registry!Executes(q, k, t)
          /\ call' = [call EXCEPT !.answer =
                        [success |-> TRUE, readable |-> r, client |-> k, token |-> t,
                         uri |-> u, version |-> server'[k].version]]
    BY DEF Registry!Execute
  <1>3. /\ call \in [request : Registry!Request, answer : Registry!Answer \cup {None}]
        /\ q \in Registry!Request /\ Managed(q)
    BY <1>1, RecordsAre DEF RegistrationInv, RequestsAreManaged
  <1>4. /\ issued' \in 0 .. MaxToken
        /\ server' \in [Client -> Registry!ServerRecord]
        /\ \A j \in Client \ {k} : server'[j] = server[j]
        /\ q.method = "POST" => server[k].token = 0
        /\ q.method # "POST" => k = q.client /\ server[k].live /\ t # 0
        /\ q.method # "DELETE" => server'[k].live /\ server'[k].token = t
        /\ q.method = "DELETE" => ~server'[k].live /\ server'[k].token # 0
    BY <1>2, <1>3, ExecutesDoes DEF RegistrationInv
  <1>5. server'[k].version \in Registry!Version
    BY <1>4 DEF Registry!ServerRecord
  <1> PICK a : a = [success |-> TRUE, readable |-> r, client |-> k, token |-> t,
                    uri |-> u, version |-> server'[k].version]
    OBVIOUS
  <1>6. /\ a.success /\ a.client = k /\ a.token = t /\ a.uri = u
        /\ a.version = server'[k].version
    OBVIOUS
  <1>7. a \in Registry!Answer
    <2>1. \A b \in BOOLEAN, c \in Client, x \in Registry!Token, v \in Registry!Version :
            [success |-> TRUE, readable |-> b, client |-> c, token |-> x, uri |-> u,
             version |-> v] \in Registry!Answer
      BY DEF Registry!Answer
    <2> QED
      BY <2>1, <1>5
  <1>8. /\ call' = [request |-> q, answer |-> a]
        /\ call'.request = q /\ call'.answer = a
        /\ call' \in [request : Registry!Request, answer : Registry!Answer \cup {None}]
    <2>1. call = [request |-> call.request, answer |-> call.answer]
      BY <1>3
    <2>2. call' = [request |-> call.request, answer |-> a]
      BY <2>1, <1>2
    <2> QED
      BY <2>2, <1>3, <1>7
  <1>9. call' # Registry!Idle /\ a # None
    BY <1>3, <1>7, <1>8, RegistrationAssumption DEF Registry!Idle
  <1>10. Registry!TypeOK'
    BY <1>1, <1>4, <1>8 DEF RegistrationInv, Registry!TypeOK, Registry!Token
  <1>11. RequestsAreManaged'
    BY <1>1, <1>3, <1>8 DEF RegistrationInv, RequestsAreManaged, Managed
  <1>12. CallIsAbout'
    BY <1>1, <1>8 DEF RegistrationInv, CallIsAbout
  <1>13. \A j \in deleted' : Gone(j)'
    BY <1>1, <1>2, <1>3, GoneStays DEF RegistrationInv, Registry!TypeOK
  <1>14. AnswerInv'
    BY <1>4, <1>6, <1>8 DEF AnswerInv, Managing, Gone
  <1>15. CallerInv'
    <2> SUFFICES ASSUME ~failed'
                 PROVE  /\ late' = {}
                        /\ IF q.method = "DELETE" THEN \A j \in Client : ~server'[j].live
                           ELSE \A j \in Client : server'[j].live =>
                                  /\ j = k /\ t = server'[j].token
                                  /\ server'[k].version = server'[j].version
      BY <1>6, <1>8, <1>9 DEF CallerInv, Answered, Known
    <2>1. /\ late' = {}
          /\ IF record = None THEN \A j \in Client : ~server[j].live
             ELSE \A j \in Client : Known(j, record.client, record.token, record.version)
      BY <1>1 DEF RegistrationInv, CallerInv
    <2>2. \A j \in Client : server[j].live => q.method # "POST" /\ j = q.client
      BY <2>1, <1>1 DEF RegistrationInv, CallIsAbout, Known
    <2>3. \A j \in Client \ {k} : ~server'[j].live
      BY <2>2, <1>4
    <2> QED
      BY <2>1, <2>3, <1>4
  <1> QED
    BY <1>10, <1>11, <1>12, <1>13, <1>14, <1>15 DEF RegistrationInv

LEMMA RefuseCall ==
  ASSUME RegistrationInv, Registry!Refuse
  PROVE  RegistrationInv'
  <1> PICK a : a = [success |-> FALSE, readable |-> TRUE, client |-> None, token |-> 0,
                    uri |-> None, version |-> 0]
    OBVIOUS
  <1>1. /\ call # Registry!Idle /\ call.answer = None
        /\ call' = [call EXCEPT !.answer = a]
        /\ UNCHANGED <<server, issued, version, record, late, failed, deleted>>
    BY DEF Registry!Refuse, Registry!provider
  <1>2. /\ call \in [request : Registry!Request, answer : Registry!Answer \cup {None}]
    BY <1>1, RecordsAre DEF RegistrationInv
  <1>3. a \in Registry!Answer /\ ~a.success
    BY RecordsAre DEF RegistrationInv, Registry!Answer, Registry!Token, Registry!Version
  <1>4. call'.request = call.request /\ call'.answer = a
        /\ call' \in [request : Registry!Request, answer : Registry!Answer \cup {None}]
    BY <1>1, <1>2, <1>3
  <1>5. a # None
    BY <1>3, RegistrationAssumption
  <1>6. Registry!TypeOK'
    BY <1>1, <1>4 DEF RegistrationInv, Registry!TypeOK
  <1>7. RequestsAreManaged' /\ CallIsAbout'
    BY <1>1, <1>4 DEF RegistrationInv, RequestsAreManaged, Managed, CallIsAbout
  <1>8. AnswerInv' /\ CallerInv'
    BY <1>1, <1>3, <1>4, <1>5 DEF RegistrationInv, AnswerInv, CallerInv, Answered
  <1> QED
    BY <1>1, <1>6, <1>7, <1>8 DEF RegistrationInv, Gone

LEMMA ExecuteLateCall ==
  ASSUME RegistrationInv, NEW q \in late, Registry!ExecuteLate(q)
  PROVE  RegistrationInv'
  <1>1. /\ late' = late \ {q} /\ failed
        /\ UNCHANGED <<version, record, call, failed, deleted>>
    BY DEF Registry!ExecuteLate, RegistrationInv, CallerInv
  <1>2. q \in Registry!Request /\ Managed(q)
    BY DEF RegistrationInv, Registry!TypeOK, RequestsAreManaged
  <1>3. /\ server' \in [Client -> Registry!ServerRecord] /\ issued' \in 0 .. MaxToken
        /\ \A j \in Client : Gone(j) => Gone(j)'
    <2>1. CASE UNCHANGED Registry!provider
      BY <2>1 DEF Registry!provider, RegistrationInv, Registry!TypeOK, Registry!Token, Gone
    <2>2. ASSUME NEW k \in Client, NEW t \in Registry!Token, Registry!Executes(q, k, t)
          PROVE  /\ server' \in [Client -> Registry!ServerRecord]
                 /\ issued' \in 0 .. MaxToken
                 /\ \A j \in Client : Gone(j) => Gone(j)'
      BY <2>2, <1>2, ExecutesDoes, GoneStays DEF RegistrationInv
    <2> QED
      BY <2>1, <2>2 DEF Registry!ExecuteLate
  <1>4. Registry!TypeOK'
    BY <1>1, <1>3 DEF RegistrationInv, Registry!TypeOK, Registry!Token
  <1>5. RequestsAreManaged' /\ CallIsAbout' /\ CallerInv'
    BY <1>1 DEF RegistrationInv, RequestsAreManaged, Managed, CallIsAbout, CallerInv
  <1>6. AnswerInv'
    <2>1. call # Registry!Idle /\ call.request.method = "DELETE" => call.request.client \in Client
      BY DEF RegistrationInv, RequestsAreManaged, Managed, Managing
    <2>2. Answered => call # Registry!Idle
      BY DEF Answered, Registry!Idle
    <2> QED
      BY <2>1, <2>2, <1>1, <1>3 DEF RegistrationInv, AnswerInv, Answered
  <1>7. \A k \in deleted' : Gone(k)'
    BY <1>1, <1>3 DEF RegistrationInv, Registry!TypeOK
  <1> QED
    BY <1>4, <1>5, <1>6, <1>7 DEF RegistrationInv

-----------------------------------------------------------------------------
LEMMA RegistrationStarts == Registry!Init => RegistrationInv
  <1> SUFFICES ASSUME Registry!Init PROVE RegistrationInv
    OBVIOUS
  <1>1. /\ call = Registry!Idle /\ call.answer = None /\ record = None
        /\ late = {} /\ deleted = {} /\ failed = FALSE
        /\ \A k \in Client : server[k] = Registry!Nowhere
    BY DEF Registry!Init, Registry!Idle
  <1>2. Registry!TypeOK
    <2>1. Registry!Nowhere \in Registry!ServerRecord
      BY RegistrationAssumption
         DEF Registry!Nowhere, Registry!ServerRecord, Registry!Token, Registry!Version
    <2>2. server \in [Client -> Registry!ServerRecord]
      BY <2>1 DEF Registry!Init
    <2>3. issued \in Registry!Token /\ version \in Registry!Version
      BY RegistrationAssumption DEF Registry!Init, Registry!Token, Registry!Version
    <2> QED
      BY <1>1, <2>2, <2>3 DEF Registry!TypeOK
  <1> QED
    BY <1>1, <1>2 DEF RegistrationInv, RequestsAreManaged, CallIsAbout, AnswerInv,
                      CallerInv, Answered, Registry!Nowhere

LEMMA RegistrationSteps ==
  RegistrationInv /\ [Registry!Next]_(Registry!vars) => RegistrationInv'
  <1> SUFFICES ASSUME RegistrationInv, [Registry!Next]_(Registry!vars) PROVE RegistrationInv'
    OBVIOUS
  <1>1. version \in 0 .. MaxVersion /\ {"POST", "GET", "PUT", "DELETE"} = Registry!Method
    BY DEF RegistrationInv, Registry!TypeOK, Registry!Version, Registry!Method
  <1>2. ASSUME NEW method, NEW r, Registry!Submit(method, r)
        PROVE  /\ version' \in 0 .. MaxVersion
               /\ Registry!Send(method, r, version')
    BY <1>1, <1>2, RegistrationAssumption DEF Registry!Submit
  <1>3. CASE Registry!RegisterClient
    <2>1. record = None /\ Registry!Submit("POST", None)
      BY <1>3 DEF Registry!RegisterClient
    <2> PICK v : v = version'
      OBVIOUS
    <2>2. v \in 0 .. MaxVersion /\ Registry!Send("POST", None, v)
      BY <1>2, <2>1
    <2> QED
      BY <1>1, <1>2, <2>1, <2>2, SendCall
  <1>4. CASE Registry!ReadClientRegistration
    <2>1. /\ record # None /\ Registry!Manageable(record)
          /\ Registry!Send("GET", record, 0) /\ version' = version
      BY <1>4 DEF Registry!ReadClientRegistration
    <2> PICK r : r = record
      OBVIOUS
    <2> QED
      BY <1>1, <2>1, RecordsAre, SendCall DEF RegistrationInv
  <1>5. CASE Registry!UpdateClientRegistration
    <2>1. /\ record # None /\ Registry!Manageable(record)
          /\ Registry!Submit("PUT", record)
      BY <1>5 DEF Registry!UpdateClientRegistration
    <2> PICK v, r : v = version' /\ r = record
      OBVIOUS
    <2>2. v \in 0 .. MaxVersion /\ Registry!Send("PUT", r, v)
      BY <1>2, <2>1
    <2> QED
      BY <1>1, <1>2, <2>1, <2>2, SendCall
  <1>6. CASE Registry!DeleteClientRegistration
    <2>1. /\ record # None /\ Registry!Manageable(record)
          /\ Registry!Send("DELETE", record, 0) /\ version' = version
      BY <1>6 DEF Registry!DeleteClientRegistration
    <2> PICK r : r = record
      OBVIOUS
    <2> QED
      BY <1>1, <2>1, RecordsAre, SendCall DEF RegistrationInv
  <1>7. CASE Registry!Return
    BY <1>7, ReturnCall
  <1>8. CASE Registry!Break
    BY <1>8, BreakCall
  <1>9. CASE Registry!Execute
    BY <1>9, ExecuteCall
  <1>10. CASE Registry!Refuse
    BY <1>10, RefuseCall
  <1>11. ASSUME NEW q \in late, Registry!ExecuteLate(q) PROVE RegistrationInv'
    BY <1>11, ExecuteLateCall
  <1>12. CASE UNCHANGED Registry!vars
    BY <1>12 DEF Registry!vars, RegistrationInv, Registry!TypeOK, RequestsAreManaged,
                 CallIsAbout, AnswerInv, CallerInv, Answered, Gone, Known
  <1> QED
    BY <1>3, <1>4, <1>5, <1>6, <1>7, <1>8, <1>9, <1>10, <1>11, <1>12 DEF Registry!Next

THEOREM RegistrationInvariant == Registry!Spec => []RegistrationInv
  BY RegistrationStarts, RegistrationSteps, PTL DEF Registry!Spec

(* What the caller believes of its clients is so, of those that live as long *)
(* as no call has failed, and of those that it has deleted always            *)
(* (registration.go:76-102, 155-172).                                       *)
THEOREM RegistrationCaller == Registry!Spec => []CallerIsRight
  <1>1. ASSUME RegistrationInv PROVE Registry!CallerKnows
    <2> SUFFICES ASSUME ~failed, call = Registry!Idle, NEW k \in Client, server[k].live
                 PROVE  /\ record # None /\ record.client = k
                        /\ record.token = server[k].token
                        /\ record.version = server[k].version
      BY DEF Registry!CallerKnows
    <2>1. call.answer = None
      BY DEF Registry!Idle
    <2> QED
      BY <1>1, <2>1 DEF RegistrationInv, CallerInv, Known
  <1>2. RegistrationInv => Registry!DeletedIsGone
    BY DEF RegistrationInv, Gone, Registry!DeletedIsGone
  <1>3. RegistrationInv => CallerIsRight
    BY <1>1, <1>2 DEF CallerIsRight, Registry!CallerIsRight
  <1> QED
    BY <1>3, RegistrationInvariant, PTL

-----------------------------------------------------------------------------
(* The two side by side.                                                   *)

(* A behaviour of the whole is one of either part, each seen by itself: what *)
(* is proved of the parts holds of the run that checks them together.        *)
THEOREM ConfigurationIsBoth == ConfigurationSpec => Spec /\ Registry!Spec
  <1>1. ProviderRests => Init
    BY ProviderAssumption DEF ProviderRests, Init
  <1>2. ConfigurationInit => Init /\ Registry!Init
    BY <1>1 DEF ConfigurationInit
  <1>3. [ConfigurationNext]_<<vars, registrationVars, part>> =>
          [Next]_vars /\ [Registry!Next]_(Registry!vars)
    BY DEF ConfigurationNext, registrationVars, Registry!vars
  <1> QED
    BY <1>2, <1>3, PTL DEF ConfigurationSpec, Spec, Registry!Spec

(* The configuration and its requests, and the registration with its calls,  *)
(* keep their types.                                                        *)
THEOREM ConfigurationTypes == ConfigurationSpec => []ConfigurationTypeOK
  <1>1. ProviderInv /\ RegistrationInv => ConfigurationTypeOK
    BY DEF ProviderInv, RegistrationInv, ConfigurationTypeOK
  <1> QED
    BY <1>1, ProviderInvariant, RegistrationInvariant, ConfigurationIsBoth, PTL

=============================================================================
