---------------------------- MODULE LoginFlow ----------------------------
(***************************************************************************)
(* One login, from BeginContext to the identity that complete() returns    *)
(* (api.go, authorization_url.go, callback.go, jose.go, exchange.go), with *)
(* several attempts, several calls in flight at once, several clients of   *)
(* several issuers, and the issuers and the front channel they talk        *)
(* through.                                                                *)
(*                                                                         *)
(* A call of complete() stops at every network exchange: for the keys that *)
(* verify a JWT response, for the tokens, for UserInfo.  Between two stops *)
(* it runs without interruption, so each stretch is one action.  What it   *)
(* keeps in local variables across a stop is its frame.  The stops for the *)
(* keys of an ID token and of a signed UserInfo, which decide about what   *)
(* has already come, are part of the stop before them.                     *)
(*                                                                         *)
(* Left to other modules: columns of a row that the table mixes up         *)
(* (AttemptVault).  Left out: time, several audiences in one ID token, and *)
(* the claims of a profile other than whose profile it is.                 *)
(***************************************************************************)
EXTENDS AttemptProtection

CONSTANTS
  Attempt,      \* calls of BeginContext
  Secret,       \* 256-bit values
  Tape,         \* Tape[a]: the material drawn by a, as in AttemptVault
  Issuer, ClientID, RedirectURL, Subject, Acr,
  Client,       \* client objects built by New, in one process or in several
  Config,       \* Config[c]: what New was given and what it discovered
  Offer,        \* the AuthorizationOptions that BeginContext is called with
  Code,         \* authorization codes; each names one session at an issuer
  Call,         \* calls of complete()
  EmitsIss,     \* issuers that put "iss" into a direct response (RFC 9207)
  Careful,      \* issuers that redeem a code for its own session and PKCE only
  FrontChannel, \* "faithful" or "scrambled": what the browser does to responses
  None          \* an absent value

ResponseMode == {"query", "form_post", "jwt", "query.jwt", "form_post.jwt"}
JWTMode      == {"jwt", "query.jwt", "form_post.jwt"}
Carrier      == {"query", "form_post"}

ConfigType ==
  [issuer : Issuer, clientID : ClientID, redirectURL : RedirectURL,
   requireResponseIssuer : BOOLEAN, useUserInfo : BOOLEAN,
   enableJARM : BOOLEAN, enablePAR : BOOLEAN,
   userInfoEndpoint : BOOLEAN, parEndpoint : BOOLEAN, requirePAR : BOOLEAN,
   responseModes : SUBSET ResponseMode, acrValues : SUBSET Acr]
OfferType ==
  [responseMode : ResponseMode, acrValues : SUBSET Acr,
   useUserInfo : BOOLEAN, usePAR : BOOLEAN]

ASSUME TapeAssumption ==
  /\ Tape \in [Attempt -> Material(Secret)]
  /\ \A a, b \in Attempt : a # b =>
       {Tape[a].state, Tape[a].nonce, Tape[a].pkceVerifier}
         \cap {Tape[b].state, Tape[b].nonce, Tape[b].pkceVerifier} = {}
ASSUME ConfigAssumption ==
  /\ Config \in [Client -> ConfigType]
  /\ Offer \subseteq OfferType
ASSUME EnvironmentAssumption ==
  /\ EmitsIss \subseteq Issuer
  /\ Careful \subseteq Issuer
  /\ FrontChannel \in {"faithful", "scrambled"}
ASSUME NoneAssumption ==
  None \notin Secret \cup Issuer \cup Subject \cup Client \cup Code

VARIABLES
  phase,        \* phase[a]: how far BeginContext is with attempt a
  origin,       \* origin[a]: the client and the options a was begun with
  granted,      \* granted[code]: the session behind a code, at the issuer
  frame,        \* frame[k]: the local variables of call k
  sent,         \* every code and verifier sent to a token endpoint
  admitted      \* every identity returned to the application

vars == <<phase, origin, granted, frame, sent, admitted>>

-----------------------------------------------------------------------------
(* Attempts.                                                               *)

ContextType ==
  [issuer : Issuer, clientID : ClientID, redirectURL : RedirectURL,
   responseMode : ResponseMode, requireResponseIssuer : BOOLEAN,
   acrValues : SUBSET Acr, useUserInfo : BOOLEAN]

(* Fault: the client's own policy is not sealed, only the options are. *)
NewContextWithoutPolicy(c, o) ==
  [issuer                |-> Config[c].issuer,
   clientID              |-> Config[c].clientID,
   redirectURL           |-> Config[c].redirectURL,
   responseMode          |-> o.responseMode,
   requireResponseIssuer |-> Config[c].requireResponseIssuer,
   acrValues             |-> o.acrValues,
   useUserInfo           |-> o.useUserInfo]

(* The attemptContext that BeginContext seals for client c and options o. *)
NewContext(c, o) ==
  [issuer                |-> Config[c].issuer,
   clientID              |-> Config[c].clientID,
   redirectURL           |-> Config[c].redirectURL,
   responseMode          |-> o.responseMode,
   requireResponseIssuer |-> Config[c].requireResponseIssuer,
   acrValues             |-> o.acrValues,
   useUserInfo           |-> o.useUserInfo \/ Config[c].useUserInfo]

(* Attempts whose URL was shown to the browser and whose row was stored. *)
Begun == {a \in Attempt : phase[a] \in {"shown", "pushed"}}

(* The context that Begin sealed for a, and the row it returned. *)
SealedContext(a) == NewContext(origin[a].client, origin[a].options)
Stored(a) == Protect(Tape[a], SealedContext(a))

(* The issuer whose authorization endpoint the URL of a names. *)
IssuerOf(a) == Config[origin[a].client].issuer

Pushes(c, o) == o.usePAR \/ Config[c].requirePAR \/ Config[c].enablePAR

(* What initialAuthorizationURLWithOptions checks before any network. *)
Supports(c, o) ==
  /\ Config[c].acrValues = {} \/ o.acrValues \subseteq Config[c].acrValues
  /\ o.responseMode = "query" \/ o.responseMode \in Config[c].responseModes
  /\ Pushes(c, o) => Config[c].parEndpoint

-----------------------------------------------------------------------------
(* Responses.                                                              *)

(* A response as ParseCallback returns it.  A direct one carries its fields *)
(* in the open.  A JWT is signed by the issuer of its session and hides     *)
(* them until it is verified; "code" then only says which JWT it is.        *)
ResponseType ==
  [jwt : BOOLEAN, mode : Carrier, code : Code,
   state : Secret \cup {None}, issuer : Issuer \cup {None}]

(* Fault: the JWT suffix of a mode is taken for part of its carrier. *)
CarrierIsMode(mode) == mode

CarrierOf(mode) ==
  IF mode \in {"form_post", "form_post.jwt"} THEN "form_post" ELSE "query"

(* The request behind the session of a code: what the URL of its attempt    *)
(* asked for.                                                              *)
RequestOf(code) == origin[granted[code].attempt]
AudienceOf(code) == Config[RequestOf(code).client].clientID

(* The response the issuer makes for a session, in the mode it was asked. *)
Issued(code) ==
  LET s   == granted[code]
      jwt == RequestOf(code).options.responseMode \in JWTMode
  IN [jwt    |-> jwt,
      mode   |-> CarrierOf(RequestOf(code).options.responseMode),
      code   |-> code,
      state  |-> IF jwt THEN None ELSE Tape[s.attempt].state,
      issuer |-> IF jwt \/ s.issuer \notin EmitsIss THEN None ELSE s.issuer]

(* A scrambled front channel recombines the fields of direct responses and  *)
(* moves a JWT to another carrier; it cannot make a JWT.                    *)
Recombined ==
  [jwt : {FALSE}, mode : Carrier, code : DOMAIN granted,
   state : {Tape[granted[code].attempt].state : code \in DOMAIN granted},
   issuer : Issuer \cup {None}]
  \cup
  [jwt : {TRUE}, mode : Carrier,
   code : {code \in DOMAIN granted : Issued(code).jwt},
   state : {None}, issuer : {None}]

Delivered ==
  {Issued(code) : code \in DOMAIN granted}
    \cup (IF FrontChannel = "scrambled" THEN Recombined ELSE {})

(* verifyAuthorizationResponseJWT: signed by a key of the client's issuer,  *)
(* with that issuer as iss and the client as the only audience.             *)
VerifiesJARM(c, code) ==
  /\ granted[code].issuer = Config[c].issuer
  /\ AudienceOf(code) = Config[c].clientID

(* The fields of a verified JWT, in the mode of its carrier. *)
Opened(r) ==
  [r EXCEPT !.state  = Tape[granted[r.code].attempt].state,
            !.issuer = granted[r.code].issuer]

-----------------------------------------------------------------------------
(* The checks between the response and the token request. *)

(* Fault: a row is taken to belong to whoever serves its redirect URL. *)
ValidForRedirect(ctx, c) == ctx.redirectURL = Config[c].redirectURL

(* attemptContext.validateFor *)
ValidFor(ctx, c) ==
  /\ ctx.issuer = Config[c].issuer
  /\ ctx.clientID = Config[c].clientID
  /\ ctx.redirectURL = Config[c].redirectURL

(* Fault: only the carrier of a response is compared. *)
CarrierMatches(expected, r) == r.mode = CarrierOf(expected)

(* validateResponseMode *)
ModeMatches(expected, r) ==
  /\ r.mode = CarrierOf(expected)
  /\ r.jwt <=> expected \in JWTMode

(* Fault: a required issuer may be missing. *)
IssuerMatchesIfPresent(ctx, r) == r.issuer \in {None, ctx.issuer}

IssuerMatches(ctx, r) ==
  IF ctx.requireResponseIssuer
  THEN r.issuer = ctx.issuer
  ELSE r.issuer \in {None, ctx.issuer}

AcceptsResponse(c, a, r) ==
  /\ RecoversAttempt(r.state, Stored(a))
  /\ LET ctx == AttemptContext(Stored(a))
     IN /\ ValidFor(ctx, c)
        /\ ModeMatches(ctx.responseMode, r)
        /\ IssuerMatches(ctx, r)

-----------------------------------------------------------------------------
(* Frames.                                                                 *)

Idle == [phase |-> "idle", client |-> None, attempt |-> None,
         response |-> None, material |-> None, context |-> None,
         token |-> None]

(* A call that has returned keeps nothing but its outcome. *)
Ended(outcome) == [Idle EXCEPT !.phase = outcome]

Outcome == {"admitted", "refused", "denied", "unsupported"}

Return(k, outcome) == frame' = [frame EXCEPT ![k] = Ended(outcome)]

(* The token request leaves with the recovered verifier. *)
RequestTokens(k, c, a, r) ==
  LET m == LoginMaterial(r.state, Stored(a))
  IN /\ frame' = [frame EXCEPT ![k] =
                    [phase |-> "exchange", client |-> c, attempt |-> a,
                     response |-> r, material |-> m,
                     context |-> AttemptContext(Stored(a)), token |-> None]]
     /\ sent' = sent \cup {[issuer   |-> Config[c].issuer,
                            code     |-> r.code,
                            verifier |-> m.pkceVerifier]}

(* complete() from the recovery of the attempt to the token request. *)
Authorize(k, c, a, r) ==
  \/ /\ ~AcceptsResponse(c, a, r)
     /\ Return(k, "refused")
     /\ UNCHANGED sent
  \/ /\ AcceptsResponse(c, a, r)
     /\ granted[r.code].outcome = "error"
     /\ Return(k, "denied")
     /\ UNCHANGED sent
  \/ /\ AcceptsResponse(c, a, r)
     /\ granted[r.code].outcome = "code"
     /\ RequestTokens(k, c, a, r)

(* The identity is returned: issuer and subject of the ID token t, and     *)
(* whose UserInfo the profile came from, if any.                           *)
Admit(k, t, profile) ==
  /\ admitted' = admitted \cup
       {[state   |-> frame[k].material.state,
         issuer  |-> granted[t].issuer,
         subject |-> granted[t].subject,
         acr     |-> granted[t].acr,
         profile |-> profile]}
  /\ Return(k, "admitted")

-----------------------------------------------------------------------------
(* Init and the types.                                                     *)

Init ==
  /\ phase = [a \in Attempt |-> "idle"]
  /\ origin = <<>>
  /\ granted = <<>>
  /\ frame = [k \in Call |-> Idle]
  /\ sent = {}
  /\ admitted = {}

SessionType ==
  [attempt : Attempt, issuer : Issuer, subject : Subject, acr : Acr,
   outcome : {"code", "error"}]
FrameType ==
  [phase : {"idle", "jarm", "exchange", "userinfo"} \cup Outcome,
   client : Client \cup {None}, attempt : Attempt \cup {None},
   response : ResponseType \cup {None},
   material : Material(Secret) \cup {None},
   context : ContextType \cup {None}, token : Code \cup {None}]

TypeOK ==
  /\ phase \in [Attempt -> {"idle", "pushing", "pushed", "shown", "failed"}]
  /\ origin \in [{a \in Attempt : phase[a] # "idle"} ->
                    [client : Client, options : Offer]]
  /\ DOMAIN granted \subseteq Code
  /\ granted \in [DOMAIN granted -> SessionType]
  /\ frame \in [Call -> FrameType]
  /\ sent \subseteq [issuer : Issuer, code : Code, verifier : Secret]
  /\ admitted \subseteq [state : Secret, issuer : Issuer, subject : Subject,
                         acr : Acr, profile : Subject \cup {None}]

-----------------------------------------------------------------------------
(* BeginContext.                                                           *)

(* Without PAR it runs to the end; with PAR it stops at the PAR endpoint.   *)
(* A Begin that fails before that returns nothing and changes nothing.      *)
Begin(a, c, o) ==
  /\ phase[a] = "idle"
  /\ Distinct(Tape[a])
  /\ Supports(c, o)
  /\ phase' = [phase EXCEPT ![a] = IF Pushes(c, o) THEN "pushing" ELSE "shown"]
  /\ origin' = [b \in DOMAIN origin \cup {a} |->
                  IF b = a THEN [client |-> c, options |-> o] ELSE origin[b]]
  /\ UNCHANGED <<granted, frame, sent, admitted>>

(* The PAR endpoint answers with a request_uri, or not in time or not well; *)
(* only then are the URL and the row returned.                              *)
PushAnswered(a) ==
  /\ phase[a] = "pushing"
  /\ \E answer \in {"pushed", "failed"} : phase' = [phase EXCEPT ![a] = answer]
  /\ UNCHANGED <<origin, granted, frame, sent, admitted>>

(* External.  A user who follows the URL of attempt a signs in at issuer i, *)
(* or is refused there.  A URL that carries its parameters can end up at an *)
(* issuer it was not made for; a request_uri means nothing there.           *)
SignIn(code, a, i) ==
  /\ code \notin DOMAIN granted
  /\ a \in Begun
  /\ i = IssuerOf(a) \/ phase[a] = "shown"
  /\ \E subject \in Subject, acr \in Acr, outcome \in {"code", "error"} :
       granted' = [x \in DOMAIN granted \cup {code} |->
                     IF x # code THEN granted[x]
                     ELSE [attempt |-> a, issuer |-> i, subject |-> subject,
                           acr |-> acr, outcome |-> outcome]]
  /\ UNCHANGED <<phase, origin, frame, sent, admitted>>

-----------------------------------------------------------------------------
(* complete(), stretch by stretch.                                         *)

(* Called on client c with response r and the row of a.  A JWT response has *)
(* to be verified first, which may need keys from the network.              *)
Complete(k, c, a, r) ==
  /\ frame[k].phase = "idle"
  /\ \/ /\ ~r.jwt
        /\ Authorize(k, c, a, r)
     \/ /\ r.jwt
        /\ Config[c].enableJARM
        /\ frame' = [frame EXCEPT ![k] =
                       [phase |-> "jarm", client |-> c, attempt |-> a,
                        response |-> r, material |-> None, context |-> None,
                        token |-> None]]
        /\ UNCHANGED sent
     \/ /\ r.jwt
        /\ ~Config[c].enableJARM
        /\ Return(k, "unsupported")
        /\ UNCHANGED sent
  /\ UNCHANGED <<phase, origin, granted, admitted>>

(* The keys have arrived and the JWT verifies. *)
JARMVerified(k) ==
  /\ frame[k].phase = "jarm"
  /\ VerifiesJARM(frame[k].client, frame[k].response.code)
  /\ Authorize(k, frame[k].client, frame[k].attempt, Opened(frame[k].response))
  /\ UNCHANGED <<phase, origin, granted, admitted>>

(* The keys have not arrived, or the JWT does not verify under them. *)
JARMRefused(k) ==
  /\ frame[k].phase = "jarm"
  /\ Return(k, "refused")
  /\ UNCHANGED <<phase, origin, granted, sent, admitted>>

(* External.  The ID tokens that issuer i may answer the request of a frame *)
(* with, each named by its session.  A careful issuer answers for the code, *)
(* the client and the verifier it was sent; another may answer with any     *)
(* token that was ever issued.                                              *)
Answers(i, f) ==
  {t \in DOMAIN granted :
     /\ granted[t].outcome = "code"
     /\ i \in Careful =>
          /\ t = f.response.code
          /\ granted[t].issuer = i
          /\ AudienceOf(t) = Config[f.client].clientID
          /\ Tape[granted[t].attempt].pkceVerifier = f.material.pkceVerifier}

(* Faults: the nonce is not compared; the ACR is not. *)
AcceptsAnyNonce(f, t) ==
  /\ granted[t].issuer = Config[f.client].issuer
  /\ AudienceOf(t) = Config[f.client].clientID
  /\ f.context.acrValues = {} \/ granted[t].acr \in f.context.acrValues

AcceptsAnyACR(f, t) ==
  /\ granted[t].issuer = Config[f.client].issuer
  /\ AudienceOf(t) = Config[f.client].clientID
  /\ Tape[granted[t].attempt].nonce = f.material.nonce

(* verifyIDToken, the nonce comparison and validateIDTokenBinding. *)
AcceptsIDToken(f, t) ==
  /\ granted[t].issuer = Config[f.client].issuer
  /\ AudienceOf(t) = Config[f.client].clientID
  /\ Tape[granted[t].attempt].nonce = f.material.nonce
  /\ f.context.acrValues = {} \/ granted[t].acr \in f.context.acrValues

TokensArrive(k, t) ==
  /\ frame[k].phase = "exchange"
  /\ t \in Answers(Config[frame[k].client].issuer, frame[k])
  /\ AcceptsIDToken(frame[k], t)
  /\ \/ /\ ~frame[k].context.useUserInfo
        /\ Admit(k, t, None)
     \/ /\ frame[k].context.useUserInfo
        /\ Config[frame[k].client].userInfoEndpoint
        /\ frame' = [frame EXCEPT ![k].phase = "userinfo", ![k].token = t]
        /\ UNCHANGED admitted
     \/ /\ frame[k].context.useUserInfo
        /\ ~Config[frame[k].client].userInfoEndpoint
        /\ Return(k, "unsupported")
        /\ UNCHANGED admitted
  /\ UNCHANGED <<phase, origin, granted, sent>>

(* Fault: no timeout; only an answer that is not accepted ends the wait. *)
TokensRefusedOnAnswer(k) ==
  /\ frame[k].phase = "exchange"
  /\ \E t \in Answers(Config[frame[k].client].issuer, frame[k]) :
       ~AcceptsIDToken(frame[k], t)
  /\ Return(k, "refused")
  /\ UNCHANGED <<phase, origin, granted, sent, admitted>>

(* An error, no answer in time, or tokens that are not accepted. *)
TokensRefused(k) ==
  /\ frame[k].phase = "exchange"
  /\ Return(k, "refused")
  /\ UNCHANGED <<phase, origin, granted, sent, admitted>>

(* fetchUserInfo: the answer describes some subject, and it has to be the   *)
(* subject of the ID token.                                                 *)
UserInfoArrives(k, subject) ==
  /\ frame[k].phase = "userinfo"
  /\ subject = granted[frame[k].token].subject
  /\ Admit(k, frame[k].token, subject)
  /\ UNCHANGED <<phase, origin, granted, sent>>

UserInfoRefused(k) ==
  /\ frame[k].phase = "userinfo"
  /\ Return(k, "refused")
  /\ UNCHANGED <<phase, origin, granted, sent, admitted>>

Continue(k) ==
  \/ JARMVerified(k)
  \/ JARMRefused(k)
  \/ \E t \in Code : TokensArrive(k, t)
  \/ TokensRefused(k)
  \/ \E subject \in Subject : UserInfoArrives(k, subject)
  \/ UserInfoRefused(k)

Next ==
  \/ \E a \in Attempt, c \in Client, o \in Offer : Begin(a, c, o)
  \/ \E a \in Attempt : PushAnswered(a)
  \/ \E code \in Code, a \in Attempt, i \in Issuer : SignIn(code, a, i)
  \/ \E k \in Call, c \in Client, a \in Begun, r \in Delivered :
       Complete(k, c, a, r)
  \/ \E k \in Call : Continue(k)

(* The transport gives up after ten seconds (provider.go:323-339), so a     *)
(* call that waits for the network does not wait for ever.                  *)
Fairness ==
  /\ \A k \in Call : WF_vars(Continue(k))
  /\ \A a \in Attempt : WF_vars(PushAnswered(a))

Spec == Init /\ [][Next]_vars
FairSpec == Spec /\ Fairness

-----------------------------------------------------------------------------
(* Properties.                                                             *)

(* Every identity returned belongs to a session that a user opened for this *)
(* very attempt, at the issuer the attempt was begun with; no identity comes *)
(* out of a session opened for another attempt, however responses, rows,    *)
(* clients and tokens were combined (exchange.go:75-90, api.go:218-236).    *)
SessionBinding ==
  \A x \in admitted : \E code \in DOMAIN granted :
    LET s == granted[code]
    IN /\ s.outcome = "code"
       /\ s.subject = x.subject
       /\ x.state = Tape[s.attempt].state
       /\ x.issuer = IssuerOf(s.attempt)
       /\ s.issuer = x.issuer

(* A PKCE verifier is only ever sent to the issuer its attempt was begun    *)
(* with, also when the row is handed to a client of another issuer          *)
(* (attempt_context.go:112-115).                                           *)
VerifierCustody ==
  \A x \in sent : \E a \in Begun :
    /\ x.verifier = Tape[a].pkceVerifier
    /\ x.issuer = IssuerOf(a)

(* Mix-up: an attempt that requires the response issuer, or a JWT response, *)
(* never sends a code of one issuer to another (api.go:240-246), as long as  *)
(* the browser brings responses as they were issued.                       *)
CodeCustody ==
  \A x \in sent : \A a \in Begun :
    /\ x.verifier = Tape[a].pkceVerifier
    /\ \/ Config[origin[a].client].requireResponseIssuer
       \/ origin[a].options.responseMode \in JWTMode
    => granted[x.code].issuer = x.issuer

(* No downgrade: an attempt begun in a JWT mode only ever redeems a code     *)
(* that its issuer signed together with its state, whatever the front       *)
(* channel did, and whatever the client that completes it is configured for *)
(* (callback.go:184-191, api.go:207-217).                                  *)
SignedPairing ==
  \A x \in sent : \A a \in Begun :
    /\ x.verifier = Tape[a].pkceVerifier
    /\ origin[a].options.responseMode \in JWTMode
    => granted[x.code].attempt = a

(* The policy chosen when the login began governs how it ends, also when it  *)
(* ends on a client configured differently: the ACR is one that was asked   *)
(* for, and the profile is the UserInfo of the same subject if UserInfo was *)
(* asked for, and comes from no UserInfo otherwise (api.go:146-154).        *)
PolicyOfBegin ==
  \A x \in admitted : \A a \in Begun : x.state = Tape[a].state =>
    LET o == origin[a].options
    IN /\ o.acrValues = {} \/ x.acr \in o.acrValues
       /\ x.profile = IF o.useUserInfo \/ Config[origin[a].client].useUserInfo
                      THEN x.subject ELSE None

(* The state of LoginPromise that a state of this module stands for. *)
Asked ==
  [a \in DOMAIN origin |-> [issuer |-> IssuerOf(a),
                            acrs   |-> origin[a].options.acrValues]]

Evidence(code) ==
  [attempt |-> granted[code].attempt, issuer |-> granted[code].issuer,
   subject |-> granted[code].subject, acr |-> granted[code].acr]

SignedIn ==
  {Evidence(code) : code \in {c \in DOMAIN granted : granted[c].outcome = "code"}}

LoginOf(x) ==
  [attempt |-> CHOOSE a \in Attempt : Tape[a].state = x.state,
   issuer |-> x.issuer, subject |-> x.subject]

LoggedIn == {LoginOf(x) : x \in admitted}

Promise == INSTANCE LoginPromise
  WITH asked <- Asked, signedIn <- SignedIn, loggedIn <- LoggedIn

(* The application gets what LoginPromise promises: an identity is returned *)
(* for a login that was asked for, after its subject signed in for it at    *)
(* its issuer with an acceptable ACR (api.go:173-275).                     *)
KeepsPromise == Promise!Spec

(* Every call of complete() that starts returns, and every Begin that stops *)
(* at the PAR endpoint goes on from there.                                  *)
EveryCallReturns ==
  /\ \A k \in Call :
       frame[k].phase # "idle" ~> frame[k].phase \in Outcome
  /\ \A a \in Attempt : phase[a] = "pushing" ~> phase[a] \in {"pushed", "failed"}

(* docs/prd.md:22-23: "Unsupported provider capabilities fail during        *)
(* configuration, not halfway through an interactive login."               *)
FailsDuringConfiguration ==
  \A k \in Call : frame[k].phase # "unsupported"

=============================================================================
