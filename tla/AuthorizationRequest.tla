------------------------ MODULE AuthorizationRequest ------------------------
(***************************************************************************)
(* An authorization request from its options to the provider and back      *)
(* (config.go:181-276, authorization_url.go:59-160, api.go:126-171): the   *)
(* parameters travel in the URL, in a signed request object, pushed ahead, *)
(* or signed and pushed; what the library has to remember of them is       *)
(* sealed into the attempt's context.  A refresh goes through the same      *)
(* options for its scopes (api.go:294-299).                                *)
(*                                                                         *)
(* The URL passes through a browser, which may put another in its place,   *)
(* plain parameters for a signed or a pushed request too.  A provider      *)
(* takes the parameters from the request object or the pushed request      *)
(* alone where there is one, and one that requires pushed requests takes   *)
(* no other (RFC 9101, RFC 9126).  Left to LoginFlow: response modes,      *)
(* issuers, several attempts.  Left out: values that are only passed on    *)
(* (login_hint, locales), bounds on lengths and counts.                    *)
(***************************************************************************)
CONSTANTS
  ACR, ClaimsRequest,  \* values of acr_values and claims
  Altered,             \* the parameters a browser may put in their place
  None

VARIABLES
  policy,     \* the client's and its provider's
  phase,      \* of the one attempt
  options,    \* what the application asked for
  context,    \* the sealed context
  pushed,     \* the request the provider keeps under the request_uri
  url,        \* the authorization URL in the browser
  processed,  \* the parameters the provider took, and how the user signed in
  refresh     \* the scopes a refresh was called with, and those it sends

vars == <<policy, phase, options, context, pushed, url, processed, refresh>>

(* enablePAR and requirePAR: the client's and the provider's policy;         *)
(* parEndpoint, claimsParameter: whether the provider has the endpoint and   *)
(* takes the parameter; signer: whether the client signs request objects.    *)
Policy ==
  {p \in [enablePAR : BOOLEAN, requirePAR : BOOLEAN, parEndpoint : BOOLEAN,
          claimsParameter : BOOLEAN, signer : BOOLEAN] :
     p.enablePAR => p.parEndpoint}

Scope == {"openid", "profile", "api", "offline_access"}

Options ==
  [scopes : SUBSET {"api", "offline_access"}, prompt : SUBSET {"none", "consent"},
   maxAge : BOOLEAN, acr : ACR \cup {None}, claims : ClaimsRequest \cup {None},
   offlineAccess : BOOLEAN, usePAR : BOOLEAN, useRequestObject : BOOLEAN]

(* maxAge: whether an old authentication will not do. *)
Parameters ==
  [scope : SUBSET Scope, prompt : SUBSET {"none", "consent"},
   maxAge : BOOLEAN, acr : ACR \cup {None}, claims : ClaimsRequest \cup {None}]

(* A request is the parameters or a signed object that holds them. *)
Request == [signed : BOOLEAN, parameters : Parameters]

(* A URL is a request or the reference to a pushed one. *)
URL == [reference : BOOLEAN, request : Request \cup {None}]

SignIn == [parameters : Parameters, acr : ACR \cup {None}, old : BOOLEAN]

Refreshed == [asked : SUBSET {"api", "offline_access"}, sent : SUBSET Scope]

SealedContext == [maxAge : BOOLEAN, acr : ACR \cup {None}]

Phase == {"start", "pushing", "browser", "provider", "completed", "failed"}

TypeOK ==
  /\ policy \in Policy
  /\ phase \in Phase
  /\ options \in Options \cup {None}
  /\ context \in SealedContext \cup {None}
  /\ pushed \in Request \cup {None}
  /\ url \in URL \cup {None}
  /\ processed \in SignIn \cup {None}
  /\ refresh \in Refreshed \cup {None}
  /\ pushed # None => "openid" \in pushed.parameters.scope
  /\ url # None /\ url.reference => pushed # None

Init ==
  /\ policy \in Policy
  /\ phase = "start"
  /\ options = None /\ context = None
  /\ pushed = None /\ url = None /\ processed = None /\ refresh = None

-----------------------------------------------------------------------------
(* What the library makes of the options.                                  *)

(* Fault: openid comes with the default scopes only. *)
ScopeAsAsked(o) ==
  (IF o.scopes = {} THEN {"openid", "profile"} ELSE o.scopes)
    \cup (IF o.offlineAccess THEN {"offline_access"} ELSE {})

(* No scopes are the default ones, openid is always there. *)
ScopeOf(o) ==
  {"openid"} \cup (IF o.scopes = {} THEN {"profile"} ELSE o.scopes)
    \cup (IF o.offlineAccess THEN {"offline_access"} ELSE {})

ParametersOf(o) ==
  [scope |-> ScopeOf(o), prompt |-> o.prompt, maxAge |-> o.maxAge, acr |-> o.acr,
   claims |-> o.claims]

(* Fault: whether to push is the client's decision. *)
PushesByChoice(o) == o.usePAR \/ policy.enablePAR

Pushes(o) == o.usePAR \/ policy.requirePAR \/ policy.enablePAR

(* Refused before anything is sent. *)
Acceptable(o) ==
  /\ "none" \in o.prompt => o.prompt = {"none"}
  /\ o.claims # None => policy.claimsParameter
  /\ o.offlineAccess => "consent" \in o.prompt
  /\ o.useRequestObject => policy.signer
  /\ Pushes(o) => policy.parEndpoint

(* Fault: the context keeps what the provider can be held to, the ACR. *)
ContextOfACR(o) == [maxAge |-> FALSE, acr |-> o.acr]

ContextOf(o) == [maxAge |-> o.maxAge, acr |-> o.acr]

RequestOf(o) == [signed |-> o.useRequestObject, parameters |-> ParametersOf(o)]

(* validateIDTokenBinding, of what the ID token says of the sign-in. *)
Admits(c, s) ==
  /\ c.maxAge => ~s.old
  /\ c.acr # None => s.acr = c.acr

-----------------------------------------------------------------------------
(* BeginContext, up to its one network stop. *)
BeginContext(o) ==
  /\ phase = "start"
  /\ Acceptable(o)
  /\ options' = o
  /\ context' = ContextOf(o)
  /\ IF Pushes(o)
     THEN phase' = "pushing" /\ UNCHANGED url
     ELSE /\ phase' = "browser"
          /\ url' = [reference |-> FALSE, request |-> RequestOf(o)]
  /\ UNCHANGED <<policy, pushed, processed, refresh>>

(* The provider keeps the pushed request, and the answer arrives. *)
PushAnswered ==
  /\ phase = "pushing"
  /\ pushed' = RequestOf(options)
  /\ url' = [reference |-> TRUE, request |-> None]
  /\ phase' = "browser"
  /\ UNCHANGED <<policy, options, context, processed, refresh>>

(* It may have been kept and the answer lost; Begin fails. *)
PushFails ==
  /\ phase = "pushing"
  /\ pushed' \in {None, RequestOf(options)}
  /\ phase' = "failed"
  /\ UNCHANGED <<policy, options, context, url, processed, refresh>>

(* Complete: the provider's answer against the context. *)
Complete ==
  /\ phase = "provider"
  /\ phase' = IF Admits(context, processed) THEN "completed" ELSE "failed"
  /\ UNCHANGED <<policy, options, context, pushed, url, processed, refresh>>

(* Refresh, which has no offlineAccess of its own, with what login granted. *)
Refresh(scopes) ==
  /\ phase = "completed" /\ refresh = None
  /\ "offline_access" \in processed.parameters.scope
  /\ refresh' = [asked |-> scopes,
                 sent |-> ScopeOf([scopes |-> scopes, offlineAccess |-> FALSE])]
  /\ UNCHANGED <<policy, phase, options, context, pushed, url, processed>>

-----------------------------------------------------------------------------
(* External: the browser goes to a URL of its own making; a signed object it *)
(* cannot make.                                                             *)
Alter ==
  /\ phase = "browser"
  /\ \E p \in Altered :
       url' = [reference |-> FALSE, request |-> [signed |-> FALSE, parameters |-> p]]
  /\ UNCHANGED <<policy, phase, options, context, pushed, processed, refresh>>

Taken == IF url.reference THEN pushed ELSE url.request

(* External: the provider takes the parameters; how the user signs in is up *)
(* to it, within what it was asked for or not.                              *)
ProviderSignsIn ==
  /\ phase = "browser"
  /\ policy.requirePAR => url.reference
  /\ \E acr \in ACR \cup {None}, old \in BOOLEAN :
       processed' = [parameters |-> Taken.parameters, acr |-> acr, old |-> old]
  /\ phase' = "provider"
  /\ UNCHANGED <<policy, options, context, pushed, url, refresh>>

Next ==
  \/ \E o \in Options : BeginContext(o)
  \/ PushAnswered \/ PushFails \/ Complete
  \/ \E scopes \in SUBSET {"api", "offline_access"} : Refresh(scopes)
  \/ Alter \/ ProviderSignsIn

Spec == Init /\ [][Next]_vars

-----------------------------------------------------------------------------
(* A provider that requires pushed requests has this one, so it need not     *)
(* refuse what the library sends the browser to, and it signs the user in    *)
(* for what the application asked for and nothing else, whatever URL the     *)
(* browser went to (authorization_url.go:144-149).                          *)
RequiredArrivesIntact ==
  policy.requirePAR =>
    /\ phase = "browser" => pushed = RequestOf(options)
    /\ processed # None => processed.parameters = ParametersOf(options)

(* A login that completes satisfies the max_age and the ACR that were asked  *)
(* for, though the browser changed or stripped them, protected or not, and   *)
(* the provider never saw them: the sealed context decides (api.go:146-154,  *)
(* exchange.go:158-172).                                                    *)
PolicySurvivesTheBrowser ==
  phase = "completed" =>
    /\ options.maxAge => ~processed.old
    /\ options.acr # None => processed.acr = options.acr

(* What was asked for holds, with the browser in between: all of it where    *)
(* the provider requires pushed requests, and max_age and ACR everywhere;    *)
(* scope, prompt and claims of another request may have been replaced        *)
(* (authorization_url.go:144-149, exchange.go:158-172).                      *)
AskedIsHonoured == RequiredArrivesIntact /\ PolicySurvivesTheBrowser

(* authorization_url.go:117: "OIDC offline access requires prompt=consent":  *)
(* whichever way it is asked for.                                           *)
OfflineNeedsConsent ==
  (options # None /\ phase # "failed") =>
    LET p == ParametersOf(options)
    IN "offline_access" \in p.scope => "consent" \in p.prompt

(* docs/architecture.md:15-17: the attempt context is "binding the issuer,   *)
(* client, redirect URI, response mode, requested claims, maximum age, ACR   *)
(* policy": a login that completes is one of the requested claims.           *)
ClaimsAreBound ==
  phase = "completed" => processed.parameters.claims = options.claims

(* RFC 6749 section 6, and endpoint_client.go:81, which sends a scope only    *)
(* if there is one: a refresh that is called without scopes asks for none    *)
(* that the login did not ask for.                                          *)
RefreshStaysInGrant ==
  (refresh # None /\ refresh.asked = {}) =>
    refresh.sent \subseteq ParametersOf(options).scope

=============================================================================
