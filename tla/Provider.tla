------------------------------- MODULE Provider -------------------------------
(***************************************************************************)
(* A client from the name of its user to its requests: DiscoverIssuer asks *)
(* the host of a resource for the issuer (discovery.go:27-100), New asks    *)
(* the issuer for its metadata and admits them or not (provider.go:116-299, *)
(* 356-415), and then the operations send requests to the endpoints that    *)
(* were admitted, with the client's authentication (endpoint_client.go,     *)
(* token.go, exchange.go:176-200).                                          *)
(*                                                                         *)
(* Whoever answers may redirect, and the metadata may name any endpoint.    *)
(* Left to EndpointClient and LoginFlow: what the answers are.  Left out:   *)
(* the grammar of URLs and of resources, the algorithms of signatures       *)
(* other than a client assertion's.                                         *)
(***************************************************************************)
EXTENDS Integers, Sequences

CONSTANTS
  Origin,      \* scheme and host
  Scheme,      \* of each: "https", "loopback" (http to a loopback address), "http"
  Allowlist,   \* the origins an allowlist policy takes, for each kind
  Authority,   \* the origin of the resource's host
  ConfigSet,   \* configurations of the client
  Published(_), \* what the provider of a client so configured may publish
  None

(* The kinds of endpoint that metadata may name, and those with an alias.   *)
Kind == {"authorization", "token", "jwks", "userinfo", "par", "registration",
         "logout", "session", "revocation"}
AliasKind == {"token", "revocation", "userinfo", "par"}
RequiredKind == {"authorization", "token", "jwks"}
AuthenticatedKind == {"par", "token", "revocation"}

URL == [origin : Origin, path : {"plain", "alias", "elsewhere"}]

Feature == {"response issuer", "PAR", "JARM", "decrypter", "request object",
            "DPoP", "mutual TLS"}

SecretMethod == {"client_secret_basic", "client_secret_post", "client_secret_jwt"}
AssertionMethod == {"client_secret_jwt", "private_key_jwt"}
Method == SecretMethod \cup AssertionMethod \cup {"none", "tls_client_auth"}

(* How many bytes a secret needs to be a key of each algorithm. *)
Strength == [HS256 |-> 32, HS384 |-> 48, HS512 |-> 64]
Algorithm == DOMAIN Strength \cup {"RS256"}

(* method "" leaves the choice to New, secret is its length. *)
Config ==
  [policy : {"same origin", "any HTTPS", "allowlist"}, loopback : BOOLEAN,
   features : SUBSET Feature, method : Method \cup {""}, secret : Nat,
   signer : Algorithm \cup {None}]

(* conformant: code flow, subject types, openid, S256 and RS256 as required; *)
(* the path of a URL says which member names it.                            *)
Document ==
  [issuer : Origin, conformant : BOOLEAN, requirePAR : BOOLEAN,
   endpoint : [Kind -> [origin : Origin, path : {"plain"}] \cup {None}],
   alias : [AliasKind -> [origin : Origin, path : {"alias"}] \cup {None}],
   features : SUBSET Feature, methods : SUBSET Method, algs : SUBSET Algorithm]

Authentication == [method : Method, alg : Algorithm \cup {None}]

ClientRecord == [origins : SUBSET Origin, auth : Authentication]

Request ==
  [kind : Kind \cup {"webfinger", "discovery"}, url : URL \cup {None},
   auth : Authentication \cup {None}, asked : BOOLEAN,
   outcome : {"sent", "stopped", "no endpoint"}]

ASSUME ProviderAssumption ==
  /\ Scheme \in [Origin -> {"https", "loopback", "http"}]
  /\ Allowlist \in [Kind -> SUBSET Origin]
  /\ Authority \in Origin
  /\ ConfigSet \subseteq Config /\ ConfigSet # {}
  /\ \A c \in ConfigSet : Published(c) \subseteq Document
  /\ None \notin Algorithm /\ None \notin Document /\ None \notin ClientRecord

VARIABLES
  phase,     \* "start", "webfinger", "found", "discovery", "client", "failed"
  config,    \* Config
  links,     \* the issuer links that the resource's host has answered with
  issuer,    \* the issuer to discover
  document,  \* the metadata
  client,    \* the origins and the authentication of the client
  request    \* the request under way, or what became of it

vars == <<phase, config, links, issuer, document, client, request>>

TypeOK ==
  /\ phase \in {"start", "webfinger", "found", "discovery", "client", "failed"}
  /\ config \in Config
  /\ links \in Seq(Origin \cup {"empty"}) \cup {None}
  /\ issuer \in Origin \cup {None}
  /\ document \in Document \cup {None}
  /\ client \in ClientRecord \cup {None}
  /\ request \in Request \cup {None}
  /\ phase = "client" => client # None /\ document # None /\ document.issuer = issuer

Init ==
  /\ phase = "start"
  /\ config \in ConfigSet
  /\ links = None /\ issuer = None /\ document = None /\ client = None
  /\ request = None

Enabled(f) == f \in config.features

-----------------------------------------------------------------------------
(* Authentication of the client.                                           *)

MethodOf ==
  IF config.method # "" THEN config.method
  ELSE IF config.secret = 0 THEN "none" ELSE "client_secret_basic"

(* Fault: a provider that advertises nothing takes everything. *)
AdvertisedOrAny(d) == IF d.methods = {} THEN Method ELSE d.methods

Advertised(d) == IF d.methods = {} THEN {"client_secret_basic"} ELSE d.methods

(* The secret is the key for the first HMAC algorithm that is advertised, or *)
(* for none.                                                                *)
HMAC(d) ==
  LET offered == DOMAIN Strength \cap d.algs
      weakest == CHOOSE a \in offered : \A b \in offered : Strength[a] <= Strength[b]
  IN IF offered # {} /\ config.secret >= Strength[weakest] THEN weakest ELSE None

SignerOf(d) ==
  IF config.signer = None /\ MethodOf = "client_secret_jwt" THEN HMAC(d)
                                                            ELSE config.signer

(* validateClientAuthentication. *)
Authenticates(d) ==
  /\ MethodOf \in Advertised(d)
  /\ MethodOf = "none" => config.secret = 0
  /\ MethodOf \in SecretMethod => config.secret > 0
  /\ MethodOf \in AssertionMethod =>
       SignerOf(d) # None /\ (d.algs # {} => SignerOf(d) \in d.algs)
  /\ MethodOf = "tls_client_auth" => Enabled("mutual TLS")

AuthenticationOf(d) ==
  [method |-> MethodOf,
   alg |-> IF MethodOf \in AssertionMethod THEN SignerOf(d) ELSE None]

-----------------------------------------------------------------------------
(* Admission of the metadata.                                              *)

ValidURL(o) == Scheme[o] = "https" \/ (config.loopback /\ Scheme[o] = "loopback")

Allows(kind, u) ==
  \/ config.policy = "same origin" /\ u.origin = issuer
  \/ config.policy = "any HTTPS" /\ Scheme[u.origin] = "https"
  \/ config.policy = "allowlist" /\ u.origin \in Allowlist[kind]

(* The kinds and URLs that New looks at. *)
Named(endpoints) ==
  {[kind |-> k, url |-> endpoints[k]] :
     k \in {k \in DOMAIN endpoints : endpoints[k] # None}}

Checked(d) ==
  Named(d.endpoint) \cup (IF Enabled("mutual TLS") THEN Named(d.alias) ELSE {})

(* Fault: the origins are collected before the aliases are looked at. *)
OriginsOfEndpoints(d) == {issuer} \cup {e.url.origin : e \in Named(d.endpoint)}

OriginsOf(d) == {issuer} \cup {e.url.origin : e \in Checked(d)}

Supports(d, f) ==
  CASE f = "PAR" -> d.endpoint["par"] # None
    [] f = "mutual TLS" -> d.alias["token"] # None
    [] f = "request object" -> f \in d.features \/ Enabled("PAR")
    [] OTHER -> f \in d.features

(* Fault: metadata may be those of any issuer. *)
IsIssued(d) == ValidURL(d.issuer)

IsOfIssuer(d) == d.issuer = issuer

Admits(d) ==
  /\ IsOfIssuer(d) /\ d.conformant
  /\ \A k \in RequiredKind : d.endpoint[k] # None
  /\ \A e \in Checked(d) : ValidURL(e.url.origin) /\ Allows(e.kind, e.url)
  /\ Authenticates(d)
  /\ \A f \in config.features : Supports(d, f)

-----------------------------------------------------------------------------
(* Requests.                                                               *)

(* Fault: the token URL is taken before the alias replaces it. *)
TargetButToken(kind) ==
  IF Enabled("mutual TLS") /\ kind \in AliasKind \ {"token"} /\ document.alias[kind] # None
  THEN document.alias[kind] ELSE document.endpoint[kind]

(* An alias replaces its endpoint when mutual TLS is enabled. *)
Target(kind) ==
  IF Enabled("mutual TLS") /\ kind \in AliasKind /\ document.alias[kind] # None
  THEN document.alias[kind] ELSE document.endpoint[kind]

(* Revoke wants the plain endpoint, too. *)
HasEndpoint(kind) ==
  /\ Target(kind) # None
  /\ kind = "revocation" => document.endpoint["revocation"] # None

(* The transport lets a request through to the client's origins only. *)
Send(kind, asked) ==
  request' =
    [kind |-> kind, url |-> Target(kind), asked |-> asked,
     auth |-> IF kind \in AuthenticatedKind THEN client.auth ELSE None,
     outcome |-> IF ~HasEndpoint(kind) THEN "no endpoint"
                 ELSE IF Target(kind).origin \in client.origins THEN "sent"
                 ELSE "stopped"]

SendTo(kind, o) ==
  request' = [kind |-> kind, url |-> [origin |-> o, path |-> "plain"],
              asked |-> TRUE, auth |-> None, outcome |-> "sent"]

(* Fault: a redirect is followed as far as the transport allows. *)
FollowsWithinOrigins(o) ==
  o \in (CASE phase = "webfinger" -> {Authority}
           [] phase = "discovery" -> {issuer}
           [] OTHER -> client.origins)

(* CheckRedirect. *)
Follows(o) == FALSE

-----------------------------------------------------------------------------
(* DiscoverIssuer. *)
DiscoverIssuer ==
  /\ phase = "start"
  /\ phase' = "webfinger"
  /\ SendTo("webfinger", Authority)
  /\ UNCHANGED <<config, links, issuer, document, client>>

(* Fault: the first issuer link counts. *)
NamesFirst(ls) == ls # <<>> /\ ls[1] # "empty"

NamesOne(ls) == Len(ls) = 1 /\ ls[1] # "empty"

Give(up) == phase' = up /\ request' = None

WebFingerAnswered ==
  /\ phase = "webfinger"
  /\ \E ls \in {<<>>} \cup {<<a>> : a \in Origin \cup {"empty"}}
                 \cup {<<a, b>> : a, b \in Origin \cup {"empty"}} :
       /\ links' = ls
       /\ IF NamesOne(ls) /\ ValidURL(ls[1])
          THEN issuer' = ls[1] /\ Give("found")
          ELSE issuer' = None /\ Give("failed")
  /\ UNCHANGED <<config, document, client>>

(* New, with the issuer that was found or one that was configured. *)
New ==
  /\ \/ phase = "start" /\ issuer' \in {o \in Origin : ValidURL(o)}
     \/ phase = "found" /\ UNCHANGED issuer
  /\ phase' = "discovery"
  /\ SendTo("discovery", issuer')
  /\ UNCHANGED <<config, links, document, client>>

DiscoveryAnswered ==
  /\ phase = "discovery"
  /\ \E d \in Published(config) :
       IF Admits(d)
       THEN /\ document' = d
            /\ client' = [origins |-> OriginsOf(d), auth |-> AuthenticationOf(d)]
            /\ Give("client")
       ELSE UNCHANGED <<document, client>> /\ Give("failed")
  /\ UNCHANGED <<config, links, issuer>>

(* BeginContext, which has no request unless it pushes. *)
Begin(usePAR) ==
  /\ phase = "client" /\ request = None
  /\ usePAR \/ document.requirePAR \/ Enabled("PAR")
  /\ Send("par", usePAR)
  /\ UNCHANGED <<phase, config, links, issuer, document, client>>

(* The other operations: code exchange and refresh, keys, UserInfo, Revoke. *)
Operate(kind) ==
  /\ phase = "client" /\ request = None
  /\ kind \in {"token", "jwks", "userinfo", "revocation"}
  /\ Send(kind, TRUE)
  /\ UNCHANGED <<phase, config, links, issuer, document, client>>

(* The operation is over. *)
Return ==
  /\ phase = "client" /\ request # None
  /\ request' = None
  /\ UNCHANGED <<phase, config, links, issuer, document, client>>

(* Whoever was asked answers with a redirect. *)
Redirected(o) ==
  /\ request # None /\ request.outcome = "sent"
  /\ IF Follows(o)
     THEN /\ request' = [request EXCEPT !.url = [origin |-> o, path |-> "elsewhere"]]
          /\ UNCHANGED phase
     ELSE Give(IF phase = "client" THEN "client" ELSE "failed")
  /\ UNCHANGED <<config, links, issuer, document, client>>

Next ==
  \/ DiscoverIssuer \/ WebFingerAnswered \/ New \/ DiscoveryAnswered
  \/ \E usePAR \in BOOLEAN : Begin(usePAR)
  \/ \E kind \in Kind : Operate(kind)
  \/ Return
  \/ \E o \in Origin : Redirected(o)

Spec == Init /\ [][Next]_vars

-----------------------------------------------------------------------------
Sent == request # None /\ request.outcome = "sent"

(* A request goes to the host of the resource, to the issuer's discovery     *)
(* document, or to the very endpoint that the policy admits for its kind:    *)
(* the transport knows origins only, which several kinds share               *)
(* (provider.go:210-276, 323-339).                                           *)
OnlyAdmitted ==
  Sent =>
    CASE request.kind = "webfinger" ->
           request.url = [origin |-> Authority, path |-> "plain"]
      [] request.kind = "discovery" ->
           request.url = [origin |-> issuer, path |-> "plain"]
      [] OTHER ->
           /\ request.url \in {document.endpoint[request.kind]} \cup
                {document.alias[k] : k \in {request.kind} \cap AliasKind}
           /\ Allows(request.kind, request.url)
           /\ ValidURL(request.url.origin)

(* docs/conformance.md:25: "endpoint aliases enforced": with mutual TLS,     *)
(* nothing that has an alias is asked at its plain endpoint, and without it  *)
(* no alias, which nobody has checked, is asked (provider.go:254-276).       *)
AliasesAreEnforced ==
  (Sent /\ request.kind \in AliasKind) =>
    (request.url.path = "alias" <=>
       Enabled("mutual TLS") /\ document.alias[request.kind] # None)

(* A client that was admitted works: the origins that New has collected let  *)
(* every operation through, and what is configured or always needed has an   *)
(* endpoint (provider.go:210-278).                                           *)
AdmittedWorks ==
  (phase = "client" /\ request # None) =>
    /\ request.outcome # "stopped"
    /\ (request.kind \in {"token", "jwks"} \/ (request.kind = "par" /\ Enabled("PAR")))
         => request.outcome = "sent"

(* A request is authenticated by a method that the provider advertises, the  *)
(* default one if it advertises none; with a key that is strong enough where *)
(* the client's secret is the key, with a certificate only where mutual TLS  *)
(* is enabled; and no request to another endpoint carries a credential       *)
(* (provider.go:356-415, endpoint_client.go:164-182).                        *)
CredentialFits ==
  Sent =>
    IF request.kind \notin AuthenticatedKind THEN request.auth = None
    ELSE /\ request.auth.method \in document.methods \cup
              {m \in {"client_secret_basic"} : document.methods = {}}
         /\ (request.auth.alg \in DOMAIN Strength /\ config.signer = None)
              => config.secret >= Strength[request.auth.alg]
         /\ request.auth.method = "tls_client_auth" => Enabled("mutual TLS")

(* The issuer of a client that began with a resource is the only one that    *)
(* the resource's host has named, and the one the metadata name              *)
(* (discovery.go:83-99, provider.go:164).                                    *)
IssuerIsVouched ==
  (phase = "client" /\ links # None) =>
    /\ {links[i] : i \in 1 .. Len(links)} = {issuer}
    /\ document.issuer = issuer

(* Discovery decides once where a client's requests go: to a vouched issuer, *)
(* and to the endpoints that were admitted, aliases and all                  *)
(* (discovery.go:83-99, provider.go:210-276, 323-339).                       *)
DestinationsAreVouched == IssuerIsVouched /\ OnlyAdmitted /\ AliasesAreEnforced

(* docs/architecture.md:40-42: "Optional features are capability objects;    *)
(* absence disables them and discovery claims cannot enable behavior by      *)
(* themselves": a request is pushed only if the client or the call says so.  *)
DiscoveryEnablesNothing ==
  (Sent /\ request.kind = "par") => Enabled("PAR") \/ request.asked

=============================================================================
