-------------------------- MODULE LoginFlowProofs --------------------------
(***************************************************************************)
(* The safety of a login, for any number of attempts, calls, clients,      *)
(* issuers and sessions.                                                   *)
(*                                                                         *)
(* The inductive invariant says what the local variables of a call that    *)
(* waits for the network still mean: the frame of call k belongs to one    *)
(* begun attempt, holds that attempt's material and context, and only a    *)
(* client of the same binding runs it.  Attempts and sessions are never    *)
(* changed once they exist (Grows), so a frame that was right when the     *)
(* call stopped is still right when it goes on.                            *)
(***************************************************************************)
EXTENDS LoginFlow, TLAPS

SessionsBegun == \A code \in DOMAIN granted : granted[code].attempt \in Begun

GoodFrame(f) ==
  /\ f.phase = "jarm" =>
       /\ f.client \in Client
       /\ f.attempt \in Begun
       /\ f.response \in ResponseType
       /\ f.response.jwt
       /\ f.response.code \in DOMAIN granted
  /\ f.phase \in {"exchange", "userinfo"} =>
       /\ f.client \in Client
       /\ f.attempt \in Begun
       /\ f.material = Tape[f.attempt]
       /\ f.context = SealedContext(f.attempt)
       /\ ValidFor(f.context, f.client)
  /\ f.phase = "userinfo" =>
       /\ f.context.useUserInfo
       /\ f.token \in DOMAIN granted
       /\ granted[f.token].outcome = "code"
       /\ AcceptsIDToken(f, f.token)

GoodRequest(x) ==
  \E a \in Begun :
    /\ x.verifier = Tape[a].pkceVerifier
    /\ x.issuer = IssuerOf(a)
    /\ x.code \in DOMAIN granted
    /\ SealedContext(a).responseMode \in JWTMode =>
         /\ granted[x.code].attempt = a
         /\ granted[x.code].issuer = x.issuer
    /\ FrontChannel = "faithful" /\ SealedContext(a).requireResponseIssuer =>
         granted[x.code].issuer = x.issuer

GoodIdentity(x) ==
  \E code \in DOMAIN granted :
    LET s == granted[code]
        ctx == SealedContext(s.attempt)
    IN /\ s.outcome = "code"
       /\ s.subject = x.subject
       /\ s.acr = x.acr
       /\ x.state = Tape[s.attempt].state
       /\ x.issuer = IssuerOf(s.attempt)
       /\ s.issuer = x.issuer
       /\ ctx.acrValues = {} \/ x.acr \in ctx.acrValues
       /\ x.profile = IF ctx.useUserInfo THEN x.subject ELSE None

FlowInv ==
  /\ TypeOK
  /\ SessionsBegun
  /\ \A k \in Call : GoodFrame(frame[k])
  /\ \A x \in sent : GoodRequest(x)
  /\ \A x \in admitted : GoodIdentity(x)

(* Attempts and sessions that exist stay as they are. *)
Grows ==
  /\ \A a \in Begun : a \in Begun' /\ origin'[a] = origin[a]
  /\ \A x \in DOMAIN granted :
       x \in DOMAIN granted' /\ granted'[x] = granted[x]

-----------------------------------------------------------------------------
(* What recovery returns from a stored row: the material of its attempt and *)
(* the context that was sealed for it.                                      *)
LEMMA RecoveryExact ==
  ASSUME NEW m \in Material(Secret), NEW ctx, NEW state,
         RecoversAttempt(state, Protect(m, ctx))
  PROVE  /\ state = m.state
         /\ LoginMaterial(state, Protect(m, ctx)) = m
         /\ AttemptContext(Protect(m, ctx)) = ctx
<1>1. \A f \in Field : Protect(m, ctx).box[f] = Column(m, ctx, f)
  BY DEF Protect
<1>2. /\ Protect(m, ctx).box["nonce"].plain = m.nonce
      /\ Protect(m, ctx).box["pkceVerifier"].plain = m.pkceVerifier
      /\ Protect(m, ctx).box["context"].plain = ctx
  BY <1>1 DEF Field, Column, Seal
<1>3. state = m.state
  BY DEF RecoversAttempt, RecoversLoginMaterial, Protect, StateHash
<1>4. m = [state |-> m.state, nonce |-> m.nonce, pkceVerifier |-> m.pkceVerifier]
  BY DEF Material
<1>5. QED
  BY <1>2, <1>3, <1>4 DEF LoginMaterial, AttemptContext

(* Two attempts share no secret. *)
LEMMA FreshSecrets ==
  ASSUME NEW a \in Attempt, NEW b \in Attempt,
         \/ Tape[a].state = Tape[b].state
         \/ Tape[a].nonce = Tape[b].nonce
         \/ Tape[a].pkceVerifier = Tape[b].pkceVerifier
  PROVE  a = b
  BY TapeAssumption

(* What BeginContext seals has the type of an attempt context. *)
LEMMA ContextIsTyped ==
  ASSUME NEW c \in Client, NEW o \in Offer
  PROVE  NewContext(c, o) \in ContextType
<1>1. Config[c] \in ConfigType /\ o \in OfferType
  BY ConfigAssumption
<1>2. QED
  BY <1>1 DEF NewContext, ContextType, ConfigType, OfferType

(* A begun attempt has a client, options, and a context of the right type. *)
LEMMA BegunIsTyped ==
  ASSUME TypeOK, NEW a \in Begun
  PROVE  /\ a \in Attempt
         /\ a \in DOMAIN origin
         /\ origin[a].client \in Client
         /\ origin[a].options \in Offer
         /\ SealedContext(a) \in ContextType
         /\ Tape[a] \in Material(Secret)
<1>1. /\ a \in Attempt
      /\ a \in DOMAIN origin
      /\ origin[a].client \in Client
      /\ origin[a].options \in Offer
  BY DEF TypeOK, Begun
<1>2. QED
  BY <1>1, ContextIsTyped, TapeAssumption DEF SealedContext

(* Everything the invariant says of a frame, a request or an identity       *)
(* survives the growth of the rest.                                        *)
LEMMA GoodStays ==
  ASSUME Grows, SessionsBegun
  PROVE  /\ \A f : GoodFrame(f) => GoodFrame(f)'
         /\ \A x : GoodRequest(x) => GoodRequest(x)'
         /\ \A x : GoodIdentity(x) => GoodIdentity(x)'
<1>1. \A a \in Begun : /\ SealedContext(a)' = SealedContext(a)
                       /\ IssuerOf(a)' = IssuerOf(a)
  BY DEF Grows, SealedContext, IssuerOf
<1>2. \A x \in DOMAIN granted : AudienceOf(x)' = AudienceOf(x)
  BY DEF Grows, SessionsBegun, AudienceOf, RequestOf
<1>3. ASSUME NEW f, GoodFrame(f) PROVE GoodFrame(f)'
  BY <1>1, <1>2, <1>3 DEF Grows, GoodFrame, AcceptsIDToken, ValidFor
<1>4. ASSUME NEW x, GoodRequest(x) PROVE GoodRequest(x)'
  BY <1>1, <1>4 DEF Grows, GoodRequest
<1>5. ASSUME NEW x, GoodIdentity(x) PROVE GoodIdentity(x)'
  BY <1>1, <1>5 DEF Grows, GoodIdentity, SessionsBegun
<1>6. QED
  BY <1>3, <1>4, <1>5

(* What the front channel delivers: a typed response of some session; its   *)
(* issuer is that session's unless the channel recombines responses.       *)
LEMMA DeliveredIsTyped ==
  ASSUME TypeOK, SessionsBegun, NEW r \in Delivered
  PROVE  /\ r \in ResponseType
         /\ r.code \in DOMAIN granted
         /\ FrontChannel = "faithful" /\ ~r.jwt =>
              r.issuer \in {None, granted[r.code].issuer}
<1>1. \A code \in DOMAIN granted :
        /\ code \in Code
        /\ granted[code].issuer \in Issuer
        /\ Tape[granted[code].attempt].state \in Secret
  BY TapeAssumption DEF TypeOK, SessionType, Material
<1>2. \A m : CarrierOf(m) \in Carrier
  BY DEF CarrierOf, Carrier
<1>3. CASE \E code \in DOMAIN granted : r = Issued(code)
  <2>1. PICK code \in DOMAIN granted : r = Issued(code)
    BY <1>3
  <2>2. Issued(code) \in ResponseType
    BY <1>1, <1>2 DEF Issued, ResponseType
  <2>3. Issued(code).code = code
    BY DEF Issued
  <2>4. Issued(code).issuer \in {None, granted[code].issuer}
    BY DEF Issued
  <2> QED BY <2>1, <2>2, <2>3, <2>4
<1>4. CASE r \in Recombined /\ FrontChannel # "faithful"
  BY <1>1, <1>4 DEF Recombined, ResponseType, Carrier
<1>5. QED
  BY <1>3, <1>4 DEF Delivered

(* A call that has returned holds nothing the invariant speaks about. *)
LEMMA EndedIsGood ==
  ASSUME NEW outcome \in Outcome
  PROVE  /\ Ended(outcome) \in FrameType
         /\ GoodFrame(Ended(outcome))
<1>1. Ended(outcome) \in FrameType
  BY DEF Ended, Idle, FrameType
<1>2. Ended(outcome).phase = outcome
  BY DEF Ended, Idle
<1>3. QED
  BY <1>1, <1>2 DEF GoodFrame, Outcome

(* A step that replaces one frame, and may add a request or an identity. *)
LEMMA FrameStep ==
  ASSUME FlowInv,
         UNCHANGED <<phase, origin, granted>>,
         NEW k \in Call, NEW f \in FrameType, GoodFrame(f),
         frame' = [frame EXCEPT ![k] = f],
         sent' \subseteq [issuer : Issuer, code : Code, verifier : Secret],
         \A x \in sent' : x \in sent \/ GoodRequest(x),
         admitted' \subseteq [state : Secret, issuer : Issuer, subject : Subject,
                             acr : Acr, profile : Subject \cup {None}],
         \A x \in admitted' : x \in admitted \/ GoodIdentity(x)
  PROVE  FlowInv'
<1>1. Grows /\ SessionsBegun /\ SessionsBegun'
  BY DEF Grows, FlowInv, SessionsBegun, Begun
<1>2. TypeOK'
  BY DEF FlowInv, TypeOK
<1>3. \A j \in Call : GoodFrame(frame'[j])
  BY DEF FlowInv, TypeOK
<1>4. QED
  BY <1>1, <1>2, <1>3, GoodStays DEF FlowInv

(* complete() from the response to the token request. *)
LEMMA AuthorizeStep ==
  ASSUME FlowInv,
         UNCHANGED <<phase, origin, granted, admitted>>,
         NEW k \in Call, NEW c \in Client, NEW a \in Begun,
         NEW r \in ResponseType, r.code \in DOMAIN granted,
         r.jwt => /\ r.state = Tape[granted[r.code].attempt].state
                  /\ granted[r.code].issuer = Config[c].issuer,
         FrontChannel = "faithful" =>
           r.issuer \in {None, granted[r.code].issuer},
         Authorize(k, c, a, r)
  PROVE  FlowInv'
<1> USE DEF FlowInv
<1>1. ASSUME NEW outcome \in Outcome, Return(k, outcome), UNCHANGED sent
      PROVE  FlowInv'
  <2>1. Ended(outcome) \in FrameType /\ GoodFrame(Ended(outcome))
    BY EndedIsGood
  <2>2. sent' = sent /\ admitted' = admitted
    BY <1>1
  <2>3. /\ sent' \subseteq [issuer : Issuer, code : Code, verifier : Secret]
        /\ admitted' \subseteq [state : Secret, issuer : Issuer,
              subject : Subject, acr : Acr, profile : Subject \cup {None}]
    BY <2>2 DEF TypeOK
  <2> QED BY <1>1, <2>1, <2>2, <2>3, FrameStep DEF Return
<1>2. ASSUME AcceptsResponse(c, a, r), RequestTokens(k, c, a, r)
      PROVE  FlowInv'
  <2> DEFINE ctx == SealedContext(a)
             f == [phase |-> "exchange", client |-> c, attempt |-> a,
                   response |-> r, material |-> Tape[a], context |-> ctx,
                   token |-> None]
             x == [issuer |-> Config[c].issuer, code |-> r.code,
                   verifier |-> Tape[a].pkceVerifier]
  <2>1. /\ a \in Attempt
        /\ ctx \in ContextType
        /\ Tape[a] \in Material(Secret)
        /\ ctx.issuer = IssuerOf(a)
    BY BegunIsTyped DEF SealedContext, NewContext, IssuerOf
  <2>2. /\ r.state = Tape[a].state
        /\ LoginMaterial(r.state, Stored(a)) = Tape[a]
        /\ AttemptContext(Stored(a)) = ctx
    BY <1>2, <2>1, RecoveryExact DEF AcceptsResponse, Stored
  <2>3. /\ ValidFor(ctx, c)
        /\ ModeMatches(ctx.responseMode, r)
        /\ IssuerMatches(ctx, r)
    BY <1>2, <2>2 DEF AcceptsResponse
  <2>4. frame' = [frame EXCEPT ![k] = f] /\ sent' = sent \cup {x}
    BY <1>2, <2>2 DEF RequestTokens
  <2>5. f \in FrameType
    BY <2>1 DEF FrameType
  <2>6. GoodFrame(f)
    BY <2>3 DEF GoodFrame
  <2>7. x \in [issuer : Issuer, code : Code, verifier : Secret]
    <3>1. Config[c].issuer \in Issuer
      BY ConfigAssumption DEF ConfigType
    <3>2. r.code \in Code /\ Tape[a].pkceVerifier \in Secret
      BY <2>1 DEF ResponseType, Material
    <3> QED BY <3>1, <3>2
  <2>8. GoodRequest(x)
    <3>1. x.verifier = Tape[a].pkceVerifier /\ x.code = r.code
      OBVIOUS
    <3>2. x.issuer = IssuerOf(a) /\ x.issuer = Config[c].issuer
      BY <2>1, <2>3 DEF ValidFor
    <3>3. ctx.responseMode \in JWTMode =>
            /\ granted[r.code].attempt = a
            /\ granted[r.code].issuer = x.issuer
      <4>1. granted[r.code].attempt \in Attempt
        BY DEF TypeOK, SessionType
      <4> QED BY <2>1, <2>2, <2>3, <3>2, <4>1, FreshSecrets DEF ModeMatches
    <3>4. FrontChannel = "faithful" /\ ctx.requireResponseIssuer =>
            granted[r.code].issuer = x.issuer
      <4>1. ctx.issuer \in Issuer
        BY <2>1 DEF ContextType
      <4> QED BY <2>1, <2>3, <3>2, <4>1, NoneAssumption DEF IssuerMatches
    <3> QED BY <3>1, <3>2, <3>3, <3>4 DEF GoodRequest
  <2>9. /\ sent' \subseteq [issuer : Issuer, code : Code, verifier : Secret]
        /\ admitted' \subseteq [state : Secret, issuer : Issuer,
              subject : Subject, acr : Acr, profile : Subject \cup {None}]
        /\ \A y \in sent' : y \in sent \/ GoodRequest(y)
    BY <2>4, <2>7, <2>8 DEF TypeOK
  <2> HIDE DEF f, x
  <2> QED BY <2>4, <2>5, <2>6, <2>9, FrameStep
<1>3. QED
  BY <1>1, <1>2 DEF Authorize, Outcome

(* A call that returns an error adds nothing. *)
LEMMA ReturnStep ==
  ASSUME FlowInv, UNCHANGED <<phase, origin, granted, sent, admitted>>,
         NEW k \in Call, NEW outcome \in Outcome, Return(k, outcome)
  PROVE  FlowInv'
<1>1. Ended(outcome) \in FrameType /\ GoodFrame(Ended(outcome))
  BY EndedIsGood
<1>2. /\ sent' \subseteq [issuer : Issuer, code : Code, verifier : Secret]
      /\ admitted' \subseteq [state : Secret, issuer : Issuer,
            subject : Subject, acr : Acr, profile : Subject \cup {None}]
  BY DEF FlowInv, TypeOK
<1>3. QED
  BY <1>1, <1>2, FrameStep DEF Return

(* A token that a good frame accepts belongs to the session opened for the  *)
(* frame's own attempt, at the issuer that attempt was begun with: nonces   *)
(* are fresh, and only a client of the attempt's binding runs the frame.    *)
LEMMA AcceptedToken ==
  ASSUME FlowInv, NEW f, GoodFrame(f), f.phase \in {"exchange", "userinfo"},
         NEW t \in DOMAIN granted, AcceptsIDToken(f, t)
  PROVE  /\ granted[t].attempt = f.attempt
         /\ granted[t].issuer = IssuerOf(f.attempt)
<1>1. /\ f.attempt \in Begun
      /\ f.material = Tape[f.attempt]
      /\ f.context = SealedContext(f.attempt)
      /\ ValidFor(f.context, f.client)
  BY DEF GoodFrame
<1>2. granted[t].attempt \in Attempt /\ f.attempt \in Attempt
  BY <1>1 DEF FlowInv, TypeOK, SessionType, Begun
<1>3. granted[t].attempt = f.attempt
  BY <1>1, <1>2, FreshSecrets DEF AcceptsIDToken
<1>4. SealedContext(f.attempt).issuer = IssuerOf(f.attempt)
  BY DEF SealedContext, NewContext, IssuerOf
<1>5. QED
  BY <1>1, <1>3, <1>4 DEF AcceptsIDToken, ValidFor

(* Returning an identity: it is the one the frame's own session proves. *)
LEMMA AdmitStep ==
  ASSUME FlowInv, UNCHANGED <<phase, origin, granted, sent>>,
         NEW k \in Call, frame[k].phase \in {"exchange", "userinfo"},
         NEW t \in DOMAIN granted, granted[t].outcome = "code",
         AcceptsIDToken(frame[k], t),
         NEW profile,
         profile = IF frame[k].context.useUserInfo THEN granted[t].subject
                                                   ELSE None,
         Admit(k, t, profile)
  PROVE  FlowInv'
<1> DEFINE a == frame[k].attempt
           x == [state   |-> frame[k].material.state,
                 issuer  |-> granted[t].issuer,
                 subject |-> granted[t].subject,
                 acr     |-> granted[t].acr,
                 profile |-> profile]
<1>1. GoodFrame(frame[k])
  BY DEF FlowInv
<1>2. /\ a \in Begun
      /\ frame[k].material = Tape[a]
      /\ frame[k].context = SealedContext(a)
  BY <1>1 DEF GoodFrame
<1>3. granted[t].attempt = a /\ granted[t].issuer = IssuerOf(a)
  BY <1>1, AcceptedToken
<1>4. GoodIdentity(x)
  BY <1>2, <1>3 DEF GoodIdentity, AcceptsIDToken
<1>5. x \in [state : Secret, issuer : Issuer, subject : Subject, acr : Acr,
             profile : Subject \cup {None}]
  <2>1. granted[t] \in SessionType
    BY DEF FlowInv, TypeOK
  <2>2. Tape[a].state \in Secret
    BY <1>2, BegunIsTyped DEF FlowInv, Material
  <2> QED BY <1>2, <2>1, <2>2 DEF SessionType
<1>6. Ended("admitted") \in FrameType /\ GoodFrame(Ended("admitted"))
  BY EndedIsGood DEF Outcome
<1>7. /\ admitted' = admitted \cup {x}
      /\ frame' = [frame EXCEPT ![k] = Ended("admitted")]
  BY DEF Admit, Return
<1>8. /\ sent' \subseteq [issuer : Issuer, code : Code, verifier : Secret]
      /\ admitted' \subseteq [state : Secret, issuer : Issuer,
            subject : Subject, acr : Acr, profile : Subject \cup {None}]
      /\ \A y \in admitted' : y \in admitted \/ GoodIdentity(y)
  BY <1>4, <1>5, <1>7 DEF FlowInv, TypeOK
<1> HIDE DEF x
<1> QED
  BY <1>6, <1>7, <1>8, FrameStep

-----------------------------------------------------------------------------
(* The strengthened invariant holds in every reachable state: every frame  *)
(* and every result can be traced to one attempt and its session.         *)
THEOREM FlowInductive == Spec => []FlowInv
<1>1. Init => FlowInv
  <2> SUFFICES ASSUME Init PROVE FlowInv
    OBVIOUS
  <2>1. TypeOK
    BY DEF Init, TypeOK, FrameType, Idle
  <2>2. \A k \in Call : frame[k].phase = "idle"
    BY DEF Init, Idle
  <2> QED BY <2>1, <2>2 DEF Init, FlowInv, SessionsBegun, GoodFrame
<1>2. FlowInv /\ [Next]_vars => FlowInv'
  <2> SUFFICES ASSUME FlowInv, [Next]_vars PROVE FlowInv'
    OBVIOUS
  <2> USE DEF FlowInv
  <2>1. ASSUME NEW a \in Attempt, NEW c \in Client, NEW o \in Offer,
               Begin(a, c, o)
        PROVE  FlowInv'
    <3>1. Grows /\ SessionsBegun'
      BY <2>1 DEF Begin, Grows, Begun, TypeOK, SessionsBegun
    <3>2. TypeOK'
      BY <2>1 DEF Begin, TypeOK
    <3> QED BY <2>1, <3>1, <3>2, GoodStays DEF Begin
  <2>2. ASSUME NEW a \in Attempt, PushAnswered(a)
        PROVE  FlowInv'
    <3>1. Grows /\ SessionsBegun'
      BY <2>2 DEF PushAnswered, Grows, Begun, TypeOK, SessionsBegun
    <3>2. TypeOK'
      BY <2>2 DEF PushAnswered, TypeOK
    <3> QED BY <2>2, <3>1, <3>2, GoodStays DEF PushAnswered
  <2>3. ASSUME NEW code \in Code, NEW a \in Attempt, NEW i \in Issuer,
               SignIn(code, a, i)
        PROVE  FlowInv'
    <3>1. PICK subject \in Subject, acr \in Acr, outcome \in {"code", "error"} :
            granted' = [x \in DOMAIN granted \cup {code} |->
                          IF x # code THEN granted[x]
                          ELSE [attempt |-> a, issuer |-> i,
                                subject |-> subject, acr |-> acr,
                                outcome |-> outcome]]
      BY <2>3 DEF SignIn
    <3>2. /\ code \notin DOMAIN granted /\ a \in Begun
          /\ UNCHANGED <<phase, origin, frame, sent, admitted>>
      BY <2>3 DEF SignIn
    <3>3. Grows /\ SessionsBegun'
      BY <3>1, <3>2 DEF Grows, Begun, SessionsBegun
    <3>4. TypeOK'
      <4>1. [attempt |-> a, issuer |-> i, subject |-> subject, acr |-> acr,
             outcome |-> outcome] \in SessionType
        BY DEF SessionType
      <4> QED BY <3>1, <3>2, <4>1 DEF TypeOK
    <3> QED BY <3>2, <3>3, <3>4, GoodStays
  <2>4. ASSUME NEW k \in Call, NEW c \in Client, NEW a \in Begun,
               NEW r \in Delivered, Complete(k, c, a, r)
        PROVE  FlowInv'
    <3>1. /\ r \in ResponseType
          /\ r.code \in DOMAIN granted
          /\ FrontChannel = "faithful" /\ ~r.jwt =>
               r.issuer \in {None, granted[r.code].issuer}
      BY DeliveredIsTyped
    <3>2. UNCHANGED <<phase, origin, granted, admitted>>
      BY <2>4 DEF Complete
    <3>3. CASE ~r.jwt /\ Authorize(k, c, a, r)
      BY <3>1, <3>2, <3>3, AuthorizeStep
    <3>4. ASSUME r.jwt, UNCHANGED sent,
                 frame' = [frame EXCEPT ![k] =
                   [phase |-> "jarm", client |-> c, attempt |-> a,
                    response |-> r, material |-> None, context |-> None,
                    token |-> None]]
          PROVE  FlowInv'
      <4> DEFINE f == [phase |-> "jarm", client |-> c, attempt |-> a,
                       response |-> r, material |-> None, context |-> None,
                       token |-> None]
      <4>1. f \in FrameType /\ GoodFrame(f)
        BY <3>1, <3>4, BegunIsTyped DEF FrameType, GoodFrame
      <4>2. /\ sent' \subseteq [issuer : Issuer, code : Code, verifier : Secret]
            /\ admitted' \subseteq [state : Secret, issuer : Issuer,
                  subject : Subject, acr : Acr, profile : Subject \cup {None}]
        BY <3>2, <3>4 DEF TypeOK
      <4> QED BY <3>2, <3>4, <4>1, <4>2, FrameStep
    <3>5. CASE Return(k, "unsupported") /\ UNCHANGED sent
      BY <3>2, <3>5, ReturnStep DEF Outcome
    <3> QED BY <2>4, <3>3, <3>4, <3>5 DEF Complete
  <2>5. ASSUME NEW k \in Call, JARMVerified(k)
        PROVE  FlowInv'
    <3> DEFINE f == frame[k]
               r == Opened(f.response)
    <3>1. /\ f.phase = "jarm"
          /\ VerifiesJARM(f.client, f.response.code)
          /\ Authorize(k, f.client, f.attempt, r)
          /\ UNCHANGED <<phase, origin, granted, admitted>>
      BY <2>5 DEF JARMVerified
    <3>2. /\ f.client \in Client
          /\ f.attempt \in Begun
          /\ f.response \in ResponseType
          /\ f.response.jwt
          /\ f.response.code \in DOMAIN granted
      BY <3>1 DEF GoodFrame
    <3>3. granted[f.response.code] \in SessionType
      BY <3>2 DEF TypeOK
    <3>4. Tape[granted[f.response.code].attempt].state \in Secret
      BY <3>3, TapeAssumption DEF SessionType, Material
    <3>5. /\ r \in ResponseType
          /\ r.code = f.response.code
          /\ r.jwt
          /\ r.state = Tape[granted[r.code].attempt].state
          /\ r.issuer = granted[r.code].issuer
      BY <3>2, <3>3, <3>4 DEF Opened, ResponseType, SessionType
    <3>6. granted[r.code].issuer = Config[f.client].issuer
      BY <3>1, <3>5 DEF VerifiesJARM
    <3> HIDE DEF r
    <3> QED BY <3>1, <3>2, <3>5, <3>6, AuthorizeStep
  <2>6. ASSUME NEW k \in Call, JARMRefused(k) PROVE FlowInv'
    BY <2>6, ReturnStep DEF JARMRefused, Outcome
  <2>7. ASSUME NEW k \in Call, NEW t \in Code, TokensArrive(k, t)
        PROVE  FlowInv'
    <3>1. /\ frame[k].phase = "exchange"
          /\ t \in DOMAIN granted
          /\ granted[t].outcome = "code"
          /\ AcceptsIDToken(frame[k], t)
          /\ UNCHANGED <<phase, origin, granted, sent>>
      BY <2>7 DEF TokensArrive, Answers
    <3>2. CASE ~frame[k].context.useUserInfo /\ Admit(k, t, None)
      BY <3>1, <3>2, AdmitStep
    <3>3. ASSUME frame[k].context.useUserInfo, UNCHANGED admitted,
                 frame' = [frame EXCEPT ![k].phase = "userinfo",
                                        ![k].token = t]
          PROVE  FlowInv'
      <4> DEFINE f == [frame[k] EXCEPT !.phase = "userinfo", !.token = t]
      <4>1. frame[k] \in FrameType /\ GoodFrame(frame[k])
        BY DEF TypeOK
      <4>2. f \in FrameType
        BY <4>1 DEF FrameType
      <4>3. /\ f.phase = "userinfo" /\ f.token = t
            /\ f.client = frame[k].client /\ f.attempt = frame[k].attempt
            /\ f.material = frame[k].material /\ f.context = frame[k].context
        BY <4>1 DEF FrameType
      <4>4. GoodFrame(f)
        BY <3>1, <3>3, <4>1, <4>3 DEF GoodFrame, AcceptsIDToken
      <4>5. frame' = [frame EXCEPT ![k] = f]
        BY <3>3 DEF TypeOK
      <4>6. /\ sent' \subseteq [issuer : Issuer, code : Code, verifier : Secret]
            /\ admitted' \subseteq [state : Secret, issuer : Issuer,
                  subject : Subject, acr : Acr, profile : Subject \cup {None}]
        BY <3>1, <3>3 DEF TypeOK
      <4> HIDE DEF f
      <4> QED BY <3>1, <3>3, <4>2, <4>4, <4>5, <4>6, FrameStep
    <3>4. CASE Return(k, "unsupported") /\ UNCHANGED admitted
      BY <3>1, <3>4, ReturnStep DEF Outcome
    <3> QED BY <2>7, <3>2, <3>3, <3>4 DEF TokensArrive
  <2>8. ASSUME NEW k \in Call, TokensRefused(k) PROVE FlowInv'
    BY <2>8, ReturnStep DEF TokensRefused, Outcome
  <2>9. ASSUME NEW k \in Call, NEW subject \in Subject,
               UserInfoArrives(k, subject)
        PROVE  FlowInv'
    <3>1. /\ frame[k].phase = "userinfo"
          /\ subject = granted[frame[k].token].subject
          /\ Admit(k, frame[k].token, subject)
          /\ UNCHANGED <<phase, origin, granted, sent>>
      BY <2>9 DEF UserInfoArrives
    <3>2. /\ frame[k].context.useUserInfo
          /\ frame[k].token \in DOMAIN granted
          /\ granted[frame[k].token].outcome = "code"
          /\ AcceptsIDToken(frame[k], frame[k].token)
      BY <3>1 DEF GoodFrame
    <3> QED BY <3>1, <3>2, AdmitStep
  <2>10. ASSUME NEW k \in Call, UserInfoRefused(k) PROVE FlowInv'
    BY <2>10, ReturnStep DEF UserInfoRefused, Outcome
  <2>11. CASE UNCHANGED vars
    <3>1. Grows /\ SessionsBegun'
      BY <2>11 DEF vars, Grows, Begun, SessionsBegun
    <3>2. TypeOK'
      BY <2>11 DEF vars, TypeOK
    <3> QED BY <2>11, <3>1, <3>2, GoodStays DEF vars
  <2> QED BY <2>1, <2>2, <2>3, <2>4, <2>5, <2>6, <2>7, <2>8, <2>9, <2>10,
             <2>11 DEF Next, Continue
<1>3. QED BY <1>1, <1>2, PTL DEF Spec

-----------------------------------------------------------------------------
(* The state keeps its type. *)
THEOREM FlowTypes == Spec => []TypeOK
<1>1. FlowInv => TypeOK
  BY DEF FlowInv
<1>2. QED BY <1>1, FlowInductive, PTL

(* An identity comes from a session that was opened for the same attempt at *)
(* the issuer of the attempt (api.go:193-275, exchange.go:32-107).          *)
THEOREM FlowBindsSessions == Spec => []SessionBinding
<1>1. FlowInv => SessionBinding
  BY DEF FlowInv, GoodIdentity, SessionBinding
<1>2. QED BY <1>1, FlowInductive, PTL

(* A verifier goes to the issuer of its attempt only. *)
THEOREM FlowKeepsVerifiers == Spec => []VerifierCustody
<1>1. FlowInv => VerifierCustody
  BY DEF FlowInv, GoodRequest, VerifierCustody
<1>2. QED BY <1>1, FlowInductive, PTL

(* The request recorded for a verifier is the one of the attempt that owns  *)
(* the verifier.                                                           *)
LEMMA RequestOfAttempt ==
  ASSUME FlowInv, NEW x \in sent, NEW a \in Begun,
         x.verifier = Tape[a].pkceVerifier
  PROVE  /\ SealedContext(a).responseMode \in JWTMode =>
              /\ granted[x.code].attempt = a
              /\ granted[x.code].issuer = x.issuer
         /\ FrontChannel = "faithful" /\ SealedContext(a).requireResponseIssuer =>
              granted[x.code].issuer = x.issuer
<1>1. GoodRequest(x)
  BY DEF FlowInv
<1>2. \A b \in Begun : x.verifier = Tape[b].pkceVerifier => b = a
  BY FreshSecrets DEF Begun
<1>3. QED
  BY <1>1, <1>2 DEF GoodRequest

(* An attempt begun in a JWT mode redeems only the code its issuer signed   *)
(* together with its state, whatever the front channel does.               *)
THEOREM FlowSignedPairing == Spec => []SignedPairing
<1>1. FlowInv => SignedPairing
  BY RequestOfAttempt DEF SignedPairing, SealedContext, NewContext
<1>2. QED BY <1>1, FlowInductive, PTL

(* With a faithful front channel no code is sent to an issuer that did not  *)
(* make it, for the attempts that ask for that protection.                 *)
THEOREM FlowCodeCustody ==
  ASSUME FrontChannel = "faithful"
  PROVE  Spec => []CodeCustody
<1>1. FlowInv => CodeCustody
  BY RequestOfAttempt DEF CodeCustody, SealedContext, NewContext
<1>2. QED BY <1>1, FlowInductive, PTL

(* The policy the login began with governs how it ends. *)
THEOREM FlowPolicy == Spec => []PolicyOfBegin
<1>1. ASSUME FlowInv, NEW x \in admitted, NEW a \in Begun,
             x.state = Tape[a].state
      PROVE  LET o == origin[a].options
             IN /\ o.acrValues = {} \/ x.acr \in o.acrValues
                /\ x.profile = IF o.useUserInfo \/ Config[origin[a].client].useUserInfo
                               THEN x.subject ELSE None
  <2>1. PICK code \in DOMAIN granted :
          LET s == granted[code]
              ctx == SealedContext(s.attempt)
          IN /\ x.state = Tape[s.attempt].state
             /\ ctx.acrValues = {} \/ x.acr \in ctx.acrValues
             /\ x.profile = IF ctx.useUserInfo THEN x.subject ELSE None
    BY <1>1 DEF FlowInv, GoodIdentity
  <2>2. granted[code].attempt = a
    <3>1. granted[code].attempt \in Attempt /\ a \in Attempt
      BY <1>1 DEF FlowInv, TypeOK, SessionType, Begun
    <3> QED BY <1>1, <2>1, <3>1, FreshSecrets
  <2> QED BY <2>1, <2>2 DEF SealedContext, NewContext
<1>2. FlowInv => PolicyOfBegin
  BY <1>1 DEF PolicyOfBegin
<1>3. QED BY <1>2, FlowInductive, PTL

-----------------------------------------------------------------------------
(* LoginFlow implements LoginPromise: every step of the protocol is one     *)
(* step of the promise or none of its business.                            *)

(* An identity returned under the state of an attempt is a login of it. *)
LEMMA LoginOfAttempt ==
  ASSUME NEW a \in Attempt, NEW x, x.state = Tape[a].state
  PROVE  LoginOf(x) = [attempt |-> a, issuer |-> x.issuer, subject |-> x.subject]
<1>1. \A b \in Attempt : Tape[b].state = x.state => b = a
  BY FreshSecrets
<1>2. (CHOOSE b \in Attempt : Tape[b].state = x.state) = a
  BY <1>1
<1>3. QED
  BY <1>2 DEF LoginOf

(* A step that leaves attempts, sessions and identities alone is no step of *)
(* the promise.                                                            *)
LEMMA SilentStep ==
  ASSUME UNCHANGED <<origin, granted, admitted>>
  PROVE  UNCHANGED Promise!vars
<1>1. UNCHANGED <<Asked, SignedIn, LoggedIn>>
  BY DEF Asked, SignedIn, LoggedIn, Evidence, IssuerOf, LoginOf
<1>2. QED
  BY <1>1 DEF Promise!vars

(* Returning an identity is a LogIn of the promise. *)
LEMMA AdmitLogsIn ==
  ASSUME FlowInv, UNCHANGED <<origin, granted>>,
         NEW k \in Call, frame[k].phase \in {"exchange", "userinfo"},
         NEW t \in DOMAIN granted, granted[t].outcome = "code",
         AcceptsIDToken(frame[k], t),
         NEW profile, Admit(k, t, profile)
  PROVE  Promise!Next
<1> DEFINE a == frame[k].attempt
           x == [state   |-> frame[k].material.state,
                 issuer  |-> granted[t].issuer,
                 subject |-> granted[t].subject,
                 acr     |-> granted[t].acr,
                 profile |-> profile]
           e == Evidence(t)
<1>1. /\ a \in Begun
      /\ frame[k].material = Tape[a]
      /\ frame[k].context = SealedContext(a)
      /\ granted[t].attempt = a
      /\ granted[t].issuer = IssuerOf(a)
  <2>1. GoodFrame(frame[k])
    BY DEF FlowInv
  <2> QED BY <2>1, AcceptedToken DEF GoodFrame
<1>2. a \in Attempt /\ a \in DOMAIN origin
  BY <1>1, BegunIsTyped DEF FlowInv
<1>3. e \in SignedIn
  BY DEF SignedIn
<1>4. e.attempt = a /\ e.issuer = IssuerOf(a) /\ e.subject = granted[t].subject
      /\ e.acr = granted[t].acr
  BY <1>1 DEF Evidence
<1>5. Asked[a] = [issuer |-> IssuerOf(a), acrs |-> origin[a].options.acrValues]
  BY <1>2 DEF Asked
<1>6. origin[a].options.acrValues = {} \/ e.acr \in origin[a].options.acrValues
  BY <1>1, <1>4 DEF AcceptsIDToken, SealedContext, NewContext
<1>7. LoggedIn' = LoggedIn \cup {[attempt |-> e.attempt, issuer |-> e.issuer,
                                 subject |-> e.subject]}
  <2>1. admitted' = admitted \cup {x}
    BY DEF Admit
  <2>2. LoginOf(x) = [attempt |-> a, issuer |-> x.issuer, subject |-> x.subject]
    BY <1>1, <1>2, LoginOfAttempt
  <2>3. \A y : LoginOf(y)' = LoginOf(y)
    BY DEF LoginOf
  <2> QED BY <1>1, <1>4, <2>1, <2>2, <2>3 DEF LoggedIn
<1>8. UNCHANGED <<Asked, SignedIn>>
  BY DEF Asked, SignedIn, Evidence, IssuerOf
<1>9. Promise!LogIn(e)
  BY <1>4, <1>5, <1>6, <1>7, <1>8 DEF Promise!LogIn
<1>10. QED
  BY <1>3, <1>9 DEF Promise!Next

(* The library keeps the promise, for every value of the constants. *)
THEOREM FlowKeepsPromise == Spec => KeepsPromise
<1>1. Init => Promise!Init
  <2> SUFFICES ASSUME Init PROVE Promise!Init
    OBVIOUS
  <2>1. Asked = <<>>
    BY DEF Init, Asked
  <2>2. SignedIn = {} /\ LoggedIn = {}
    BY DEF Init, SignedIn, LoggedIn
  <2> QED BY <2>1, <2>2 DEF Promise!Init
<1>2. FlowInv /\ [Next]_vars => [Promise!Next]_(Promise!vars)
  <2> SUFFICES ASSUME FlowInv, [Next]_vars
               PROVE  Promise!Next \/ UNCHANGED Promise!vars
    OBVIOUS
  <2>1. ASSUME NEW a \in Attempt, NEW c \in Client, NEW o \in Offer,
               Begin(a, c, o)
        PROVE  Promise!Next
    <3>1. /\ a \notin DOMAIN origin
          /\ origin' = [b \in DOMAIN origin \cup {a} |->
                          IF b = a THEN [client |-> c, options |-> o]
                                   ELSE origin[b]]
          /\ UNCHANGED <<granted, admitted>>
      BY <2>1 DEF Begin, FlowInv, TypeOK
    <3>2. /\ Config[c].issuer \in Issuer
          /\ o.acrValues \in SUBSET Acr
      BY ConfigAssumption DEF ConfigType, OfferType
    <3>3. /\ a \notin DOMAIN Asked
          /\ Asked' = [b \in DOMAIN Asked \cup {a} |->
                         IF b = a THEN [issuer |-> Config[c].issuer,
                                        acrs   |-> o.acrValues]
                                  ELSE Asked[b]]
      BY <3>1 DEF Asked, IssuerOf
    <3>4. UNCHANGED <<SignedIn, LoggedIn>>
      BY <3>1 DEF SignedIn, LoggedIn, Evidence, LoginOf
    <3>5. Promise!Ask(a, Config[c].issuer, o.acrValues)
      BY <3>3, <3>4 DEF Promise!Ask
    <3> QED BY <3>2, <3>5 DEF Promise!Next
  <2>2. ASSUME NEW code \in Code, NEW a \in Attempt, NEW i \in Issuer,
               SignIn(code, a, i)
        PROVE  Promise!Next \/ UNCHANGED Promise!vars
    <3>1. PICK subject \in Subject, acr \in Acr, outcome \in {"code", "error"} :
            granted' = [x \in DOMAIN granted \cup {code} |->
                          IF x # code THEN granted[x]
                          ELSE [attempt |-> a, issuer |-> i,
                                subject |-> subject, acr |-> acr,
                                outcome |-> outcome]]
      BY <2>2 DEF SignIn
    <3>2. /\ code \notin DOMAIN granted /\ a \in Begun
          /\ UNCHANGED <<phase, origin, admitted>>
      BY <2>2 DEF SignIn
    <3> DEFINE e == [attempt |-> a, issuer |-> i, subject |-> subject,
                     acr |-> acr]
    <3>3. /\ \A x \in DOMAIN granted : /\ granted'[x] = granted[x]
                                        /\ Evidence(x)' = Evidence(x)
          /\ granted'[code].outcome = outcome
          /\ Evidence(code)' = e
          /\ DOMAIN granted' = DOMAIN granted \cup {code}
      BY <3>1, <3>2 DEF Evidence
    <3>4. SignedIn' = IF outcome = "code" THEN SignedIn \cup {e} ELSE SignedIn
      <4>1. SignedIn' = {Evidence(x)' : x \in {c \in DOMAIN granted' :
                                                 granted'[c].outcome = "code"}}
        BY DEF SignedIn
      <4> QED BY <3>2, <3>3, <4>1 DEF SignedIn
    <3>5. UNCHANGED <<Asked, LoggedIn>>
      BY <3>2 DEF Asked, LoggedIn, IssuerOf, LoginOf
    <3>6. CASE outcome = "code"
      <4>1. a \in DOMAIN Asked
        BY <3>2, BegunIsTyped DEF FlowInv, Asked
      <4>2. Promise!SignIn(a, i, subject, acr)
        BY <3>4, <3>5, <3>6, <4>1 DEF Promise!SignIn
      <4> QED BY <4>2 DEF Promise!Next
    <3>7. CASE outcome # "code"
      BY <3>4, <3>5, <3>7 DEF Promise!vars
    <3> QED BY <3>6, <3>7
  <2>3. ASSUME NEW k \in Call, NEW t \in Code, TokensArrive(k, t)
        PROVE  Promise!Next \/ UNCHANGED Promise!vars
    <3>1. /\ frame[k].phase = "exchange"
          /\ t \in DOMAIN granted
          /\ granted[t].outcome = "code"
          /\ AcceptsIDToken(frame[k], t)
          /\ UNCHANGED <<origin, granted>>
          /\ Admit(k, t, None) \/ UNCHANGED admitted
      BY <2>3 DEF TokensArrive, Answers
    <3>2. CASE Admit(k, t, None)
      BY <3>1, <3>2, AdmitLogsIn
    <3>3. CASE UNCHANGED admitted
      BY <3>1, <3>3, SilentStep
    <3> QED BY <3>1, <3>2, <3>3
  <2>4. ASSUME NEW k \in Call, NEW subject \in Subject,
               UserInfoArrives(k, subject)
        PROVE  Promise!Next
    <3>1. /\ frame[k].phase = "userinfo"
          /\ Admit(k, frame[k].token, subject)
          /\ UNCHANGED <<origin, granted>>
      BY <2>4 DEF UserInfoArrives
    <3>2. /\ frame[k].token \in DOMAIN granted
          /\ granted[frame[k].token].outcome = "code"
          /\ AcceptsIDToken(frame[k], frame[k].token)
      BY <3>1 DEF FlowInv, GoodFrame
    <3> QED BY <3>1, <3>2, AdmitLogsIn
  <2>5. ASSUME UNCHANGED <<origin, granted, admitted>>
        PROVE  UNCHANGED Promise!vars
    BY <2>5, SilentStep
  <2>6. ASSUME NEW a \in Attempt, PushAnswered(a)
        PROVE  UNCHANGED <<origin, granted, admitted>>
    BY <2>6 DEF PushAnswered
  <2>7. ASSUME NEW k \in Call, NEW c \in Client, NEW a \in Begun,
               NEW r \in Delivered, Complete(k, c, a, r)
        PROVE  UNCHANGED <<origin, granted, admitted>>
    BY <2>7 DEF Complete
  <2>8. ASSUME NEW k \in Call,
               \/ JARMVerified(k) \/ JARMRefused(k)
               \/ TokensRefused(k) \/ UserInfoRefused(k)
        PROVE  UNCHANGED <<origin, granted, admitted>>
    BY <2>8 DEF JARMVerified, JARMRefused, TokensRefused, UserInfoRefused
  <2>9. CASE UNCHANGED vars
    BY <2>5, <2>9 DEF vars
  <2> QED BY <2>1, <2>2, <2>3, <2>4, <2>5, <2>6, <2>7, <2>8, <2>9
          DEF Next, Continue
<1>3. QED
  BY <1>1, <1>2, FlowInductive, PTL DEF Spec, KeepsPromise, Promise!Spec

=============================================================================
