--------------------------- MODULE MCConfiguration --------------------------
(* What precedes a login: a client is configured by discovery (Provider),   *)
(* or the provider creates it (Registration).  The two share no state, so   *)
(* a behaviour is one of either, and the other stays as it is.              *)
EXTENDS Provider, TLC

CONSTANTS home, cdn, lo, plain

Schemes ==
  (home :> "https") @@ (cdn :> "https") @@ (lo :> "loopback") @@ (plain :> "http")

(* Keys and UserInfo may be elsewhere, what takes credentials may not. *)
Allowed ==
  [k \in Kind |-> IF k \in {"jwks", "userinfo", "logout"} THEN {home, cdn} ELSE {home}]

At(os, path) == {[origin |-> o, path |-> path] : o \in os}
Maybe(urls) == urls \cup {None}

Simple ==
  [issuer |-> home, conformant |-> TRUE, requirePAR |-> FALSE,
   endpoint |-> [k \in Kind |->
     IF k \in RequiredKind THEN [origin |-> home, path |-> "plain"] ELSE None],
   alias |-> [k \in AliasKind |-> None],
   features |-> {}, methods |-> {"none"}, algs |-> {}]

EndpointDocuments ==
  {[Simple EXCEPT !.requirePAR = r,
                  !.endpoint = [@ EXCEPT !["token"] = t, !["jwks"] = j, !["par"] = p,
                                         !["userinfo"] = u, !["revocation"] = v],
                  !.alias = [token |-> at, par |-> ap, userinfo |-> au,
                             revocation |-> av]] :
     r \in BOOLEAN, t \in At({home, lo}, "plain"), j \in At({home, cdn}, "plain"),
     p \in Maybe(At({home, cdn}, "plain")), u \in Maybe(At({cdn}, "plain")),
     v \in Maybe(At({home}, "plain")), at \in Maybe(At({home, cdn}, "alias")),
     ap \in Maybe(At({home}, "alias")), au \in Maybe(At({cdn, plain}, "alias")),
     av \in Maybe(At({cdn}, "alias"))}

Public ==
  [policy |-> "same origin", loopback |-> FALSE, features |-> {}, method |-> "",
   secret |-> 0, signer |-> None]

EndpointConfigs ==
  {[Public EXCEPT !.policy = p, !.loopback = l, !.features = f] :
     p \in {"same origin", "any HTTPS", "allowlist"}, l \in BOOLEAN,
     f \in SUBSET {"PAR", "mutual TLS"}}

AuthenticationDocuments ==
  {[Simple EXCEPT !.endpoint["par"] = [origin |-> home, path |-> "plain"],
                  !.endpoint["jwks"] = [origin |-> cdn, path |-> "plain"],
                  !.alias["token"] = a, !.methods = m, !.algs = g, !.features = f] :
     a \in Maybe(At({home}, "alias")), g \in SUBSET Algorithm,
     m \in {{}} \cup {{n} : n \in Method} \cup {{"client_secret_jwt", "none"}, Method},
     f \in {{}, {"request object", "DPoP"}}}

AuthenticationConfigs ==
  {[Public EXCEPT !.policy = "any HTTPS", !.method = m, !.secret = s, !.signer = g,
                  !.features = f] :
     m \in Method \cup {""}, s \in {0, 20, 32, 50, 64},
     g \in {None, "RS256", "HS256"},
     f \in {{}, {"mutual TLS"}, {"PAR", "request object"}, {"DPoP"}}}

IssuerDocuments ==
  {[Simple EXCEPT !.issuer = i, !.conformant = c,
                  !.endpoint = [k \in Kind |->
                    IF k \in RequiredKind THEN [origin |-> i, path |-> "plain"]
                                          ELSE None]] :
     i \in Origin, c \in BOOLEAN}

IssuerConfigs == {[Public EXCEPT !.loopback = l] : l \in BOOLEAN}

Configs == EndpointConfigs \cup AuthenticationConfigs \cup IssuerConfigs

(* Three questions, each with the configurations and the documents it needs: *)
(* where requests go, what they are authenticated with, whose client it is.  *)
Documents(c) ==
  (IF c \in EndpointConfigs THEN EndpointDocuments ELSE {})
    \cup (IF c \in AuthenticationConfigs THEN AuthenticationDocuments ELSE {})
    \cup (IF c \in IssuerConfigs THEN IssuerDocuments ELSE {})

-----------------------------------------------------------------------------
CONSTANTS AllowInsecureLoopback, URI, Client, MaxToken, MaxVersion

VARIABLES
  part,  \* which of the two runs
  server, issued, version, record, call, late, failed, deleted

registrationVars ==
  <<server, issued, version, record, call, late, failed, deleted>>

Registry == INSTANCE Registration

(* None is no record. *)
ASSUME RegistrationAssumption ==
  /\ MaxToken \in Nat /\ MaxVersion \in Nat
  /\ None \notin Registry!Request /\ None \notin Registry!Answer
  /\ None \notin Registry!Registered

ProviderRests ==
  /\ phase = "start"
  /\ config = CHOOSE c \in ConfigSet : TRUE
  /\ links = None /\ issuer = None /\ document = None /\ client = None
  /\ request = None

ConfigurationInit ==
  \/ part = "discovery" /\ Init /\ Registry!Init
  \/ part = "registration" /\ ProviderRests /\ Registry!Init

ConfigurationNext ==
  \/ part = "discovery" /\ Next /\ UNCHANGED <<registrationVars, part>>
  \/ part = "registration" /\ Registry!Next /\ UNCHANGED <<vars, part>>

ConfigurationSpec ==
  ConfigurationInit /\ [][ConfigurationNext]_<<vars, registrationVars, part>>

(* Both parts are well typed. *)
ConfigurationTypeOK == TypeOK /\ Registry!TypeOK

(* The property of Registration, under a name of this module. *)
CallerIsRight == Registry!CallerIsRight

=============================================================================
