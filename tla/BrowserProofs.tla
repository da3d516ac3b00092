--------------------------- MODULE BrowserProofs ---------------------------
(***************************************************************************)
(* For any number of attempts, any table and any number of changes to it:  *)
(* recovery returns one attempt as Begin sealed it, or nothing, and no URL *)
(* has shown a verifier.  For any options, policies and URLs of a browser: *)
(* the max_age and the ACR that were asked for hold, and the whole request *)
(* where it has to be pushed.  And of whatever comes back, exactly the     *)
(* grammar of a response is decoded, by either decoder.                    *)
(***************************************************************************)
EXTENDS MCBrowser, TLAPS

-----------------------------------------------------------------------------
(* The attempt in the table.                                               *)

(* An intact column, wherever the table has put it, is one that some Begin  *)
(* sealed: the table can move and damage columns, it cannot make one.       *)
ColumnsAreSealed ==
  \A a \in begun, f \in Field : table[a].box[f].intact =>
    \E b \in begun, g \in Field :
      table[a].box[f] = Protect(Tape[b], context[b]).box[g]

BegunDistinct == \A a \in begun : Distinct(Tape[a])

(* Everything a URL has shown is what the URL of some Begin shows. *)
ShownIsOfBegun == \A x \in shown : \E a \in begun : x \in Shown(Tape[a])

VaultInv ==
  /\ TypeOK
  /\ BegunDistinct
  /\ ShownIsOfBegun
  /\ ColumnsAreSealed
  /\ RecoveredIsWhole

(* The columns of a fresh row have the type of columns. *)
LEMMA ProtectType ==
  ASSUME NEW m \in Material(Secret), NEW ctx \in Context
  PROVE  Protect(m, ctx) \in Row
<1>1. ASSUME NEW f \in Field
      PROVE  Column(m, ctx, f) \in Envelope
  <2>1. /\ m.state \in Secret
        /\ m.nonce \in Secret
        /\ m.pkceVerifier \in Secret
    BY DEF Material
  <2>2. CASE f = "nonce"
    BY <2>1, <2>2 DEF Column, Seal, StateHash, DeriveKey, Envelope
  <2>3. CASE f = "pkceVerifier"
    BY <2>1, <2>3 DEF Column, Seal, StateHash, DeriveKey, Envelope
  <2>4. CASE f = "context"
    BY <2>1, <2>4 DEF Column, Seal, StateHash, DeriveKey, Envelope
  <2> QED BY <2>2, <2>3, <2>4, <1>1 DEF Field
<1>2. StateHash(m.state) \in [sha256 : Secret]
  BY DEF StateHash, Material
<1>3. [f \in Field |-> Column(m, ctx, f)] \in [Field -> Envelope]
  BY <1>1
<1>4. QED
  BY <1>2, <1>3 DEF Protect, Row

(* What each column of a fresh row holds, and the key it was sealed with. *)
LEMMA ProtectColumn ==
  ASSUME NEW m, NEW ctx, NEW g \in Field
  PROVE  /\ Protect(m, ctx).box[g].key = <<m.state, g>>
         /\ g = "nonce" => Protect(m, ctx).box[g].plain = m.nonce
         /\ g = "pkceVerifier" => Protect(m, ctx).box[g].plain = m.pkceVerifier
         /\ g = "context" => Protect(m, ctx).box[g].plain = ctx
<1>1. Protect(m, ctx).box[g] = Column(m, ctx, g)
  BY DEF Protect
<1>2. QED
  BY <1>1 DEF Column, Seal, DeriveKey

(* A sealed column that opens under a label is the column of that name of   *)
(* the attempt whose state was presented.                                   *)
LEMMA OpenedColumn ==
  ASSUME NEW m, NEW ctx, NEW g \in Field, NEW state, NEW f,
         Opens(Protect(m, ctx).box[g], state, f)
  PROVE  /\ m.state = state
         /\ g = f
  BY ProtectColumn DEF Opens, DeriveKey

(* What a URL shows of some material, by the kinds of what is shown.        *)
LEMMA ShownType ==
  ASSUME NEW m \in Material(Secret)
  PROVE  Shown(m) \subseteq Secret \cup [s256 : Secret]
<1>1. m.state \in Secret /\ m.nonce \in Secret /\ m.pkceVerifier \in Secret
  BY DEF Material
<1>2. S256Challenge(m.pkceVerifier) \in [s256 : Secret]
  BY <1>1 DEF S256Challenge
<1>3. QED
  BY <1>1, <1>2 DEF Shown

(* What the URL of one attempt shows, the verifier of none is: an attempt    *)
(* repeats no value of its own, nor one of another, and the challenge is not *)
(* a value at all.                                                          *)
LEMMA NoVerifierShown ==
  ASSUME NEW a \in Attempt, NEW b \in Attempt, Distinct(Tape[a]), Distinct(Tape[b])
  PROVE  Tape[a].pkceVerifier \notin Shown(Tape[b])
<1>1. /\ Tape[a] \in Material(Secret) /\ Tape[b] \in Material(Secret)
      /\ Tape[a].pkceVerifier \in Secret
      /\ Tape[b].pkceVerifier \in Secret
  BY TapeAssumption DEF Material
<1>2. Tape[a].pkceVerifier # S256Challenge(Tape[b].pkceVerifier)
  BY <1>1, ChallengeAssumption
<1>3. Tape[a].pkceVerifier # Tape[b].state /\ Tape[a].pkceVerifier # Tape[b].nonce
  <2>1. CASE a = b
    BY <2>1 DEF Distinct
  <2>2. CASE a # b
    BY <2>2, TapeAssumption DEF Values
  <2> QED BY <2>1, <2>2
<1>4. QED
  BY <1>2, <1>3 DEF Shown

(* The strengthened invariant holds in every state the table, the entropy  *)
(* source and the calls can produce.                                       *)
THEOREM VaultInductive == Spec => []VaultInv
<1>1. Init => VaultInv
  BY MaxChangesAssumption
  DEF Init, VaultInv, TypeOK, BegunDistinct, ShownIsOfBegun, ColumnsAreSealed,
      RecoveredIsWhole
<1>2. VaultInv /\ [Next]_vars => VaultInv'
  <2> SUFFICES ASSUME VaultInv, [Next]_vars PROVE VaultInv'
    OBVIOUS
  <2> USE TapeAssumption, MaxChangesAssumption
  <2> USE DEF VaultInv
  <2>1. ASSUME NEW a \in Attempt, Begin(a) PROVE VaultInv'
    <3>1. PICK ctx \in Context :
            /\ context' = [b \in begun' |-> IF b = a THEN ctx ELSE context[b]]
            /\ table' = [b \in begun' |-> IF b = a THEN Protect(Tape[a], ctx)
                                                   ELSE table[b]]
      BY <2>1 DEF Begin
    <3>2. begun' = begun \cup {a} /\ a \notin begun /\ Distinct(Tape[a])
          /\ UNCHANGED <<changes, recovered>>
          /\ shown' = shown \cup Shown(Tape[a])
      BY <2>1 DEF Begin
    <3>3. Protect(Tape[a], ctx) \in Row
      BY ProtectType
    <3>4. TypeOK'
      <4>1. shown' \subseteq Secret \cup [s256 : Secret]
        BY <3>2, ShownType DEF TypeOK
      <4> QED BY <3>1, <3>2, <3>3, <4>1 DEF TypeOK
    <3>5. BegunDistinct'
      BY <3>2 DEF BegunDistinct
    <3>6. ColumnsAreSealed'
      BY <3>1, <3>2 DEF ColumnsAreSealed
    <3>7. RecoveredIsWhole'
      BY <3>1, <3>2 DEF RecoveredIsWhole
    <3>8. ShownIsOfBegun'
      BY <3>2 DEF ShownIsOfBegun
    <3> QED BY <3>4, <3>5, <3>6, <3>7, <3>8
  <2>2. ASSUME NEW a \in begun, NEW b \in begun,
               NEW f \in Field, NEW g \in Field, MoveColumn(a, f, b, g)
        PROVE  VaultInv'
    <3>1. /\ table' = [table EXCEPT ![a].box[f] = table[b].box[g]]
          /\ UNCHANGED <<begun, context, shown, recovered>>
          /\ changes' = changes + 1 /\ changes < MaxChanges
      BY <2>2 DEF MoveColumn
    <3>2. TypeOK'
      <4>1. /\ table[a] \in Row
            /\ table[b].box[g] \in Envelope
        BY DEF TypeOK, Row
      <4>2. [table[a].box EXCEPT ![f] = table[b].box[g]] \in [Field -> Envelope]
        BY <4>1 DEF Row
      <4>3. [table[a] EXCEPT !.box = [@ EXCEPT ![f] = table[b].box[g]]] \in Row
        BY <4>1, <4>2 DEF Row
      <4>4. table' \in [begun -> Row]
        BY <3>1, <4>3 DEF TypeOK
      <4> QED BY <3>1, <4>4 DEF TypeOK
    <3>3. ColumnsAreSealed'
      BY <3>1 DEF ColumnsAreSealed, TypeOK, Row
    <3> QED
      BY <3>1, <3>2, <3>3 DEF BegunDistinct, ShownIsOfBegun, RecoveredIsWhole
  <2>3. ASSUME NEW a \in begun, NEW b \in begun, MoveHash(a, b)
        PROVE  VaultInv'
    <3>1. /\ table' = [table EXCEPT ![a].stateHash = table[b].stateHash]
          /\ UNCHANGED <<begun, context, shown, recovered>>
          /\ changes' = changes + 1 /\ changes < MaxChanges
      BY <2>3 DEF MoveHash
    <3>2. TypeOK'
      BY <3>1 DEF TypeOK, Row
    <3>3. ColumnsAreSealed'
      BY <3>1 DEF ColumnsAreSealed, TypeOK, Row
    <3> QED
      BY <3>1, <3>2, <3>3 DEF BegunDistinct, ShownIsOfBegun, RecoveredIsWhole
  <2>4. ASSUME NEW a \in begun, NEW f \in Field, Damage(a, f)
        PROVE  VaultInv'
    <3>1. /\ table' = [table EXCEPT ![a].box[f].intact = FALSE]
          /\ UNCHANGED <<begun, context, shown, recovered>>
          /\ changes' = changes + 1 /\ changes < MaxChanges
      BY <2>4 DEF Damage
    <3>2. TypeOK'
      <4> DEFINE damaged == [table[a].box[f] EXCEPT !.intact = FALSE]
      <4>1. /\ table[a] \in Row
            /\ damaged \in Envelope
        <5>1. table[a] \in Row
          BY DEF TypeOK
        <5>2. table[a].box[f] \in Envelope
          BY <5>1 DEF Row
        <5>3. damaged \in Envelope
          BY <5>2 DEF Envelope
        <5> QED BY <5>1, <5>3
      <4>2. [table[a].box EXCEPT ![f] = damaged] \in [Field -> Envelope]
        BY <4>1 DEF Row
      <4>3. [table[a] EXCEPT !.box = [@ EXCEPT ![f] = damaged]] \in Row
        BY <4>1, <4>2 DEF Row
      <4>4. table' \in [begun -> Row]
        BY <3>1, <4>3 DEF TypeOK
      <4> QED BY <3>1, <4>4 DEF TypeOK
    <3>3. ColumnsAreSealed'
      BY <3>1 DEF ColumnsAreSealed, TypeOK, Row, Envelope
    <3> QED
      BY <3>1, <3>2, <3>3 DEF BegunDistinct, ShownIsOfBegun, RecoveredIsWhole
  <2>5. ASSUME NEW a \in begun, NEW state \in Secret, Recover(a, state)
        PROVE  VaultInv'
    <3> DEFINE r == Result(LoginMaterial(state, table[a]),
                           AttemptContext(table[a]))
    <3>1. /\ RecoversAttempt(state, table[a])
          /\ recovered' = recovered \cup {r}
          /\ UNCHANGED <<begun, context, shown, table, changes>>
      BY <2>5 DEF Recover
    <3>2. \E b \in begun : r = Result(Tape[b], context[b])
      <4>1. ASSUME NEW f \in Field
            PROVE  \E b \in begun :
                     /\ Tape[b].state = state
                     /\ table[a].box[f] = Protect(Tape[b], context[b]).box[f]
        <5>1. Opens(table[a].box[f], state, f)
          BY <3>1 DEF RecoversAttempt, RecoversLoginMaterial,
                      OpensAttemptContext, Field
        <5>2. PICK b \in begun, g \in Field :
                table[a].box[f] = Protect(Tape[b], context[b]).box[g]
          BY <5>1 DEF Opens, ColumnsAreSealed
        <5>3. Opens(Protect(Tape[b], context[b]).box[g], state, f)
          BY <5>1, <5>2
        <5>4. Tape[b].state = state /\ g = f
          BY <5>3, OpenedColumn
        <5> QED BY <5>2, <5>4
      <4>2. PICK b \in begun :
              /\ Tape[b].state = state
              /\ \A f \in Field :
                   table[a].box[f] = Protect(Tape[b], context[b]).box[f]
        <5>1. "nonce" \in Field BY DEF Field
        <5>2. \A b, c \in begun : Tape[b].state = Tape[c].state => b = c
          BY DEF TypeOK, Values
        <5> QED BY <4>1, <5>1, <5>2
      <4>3. /\ table[a].box["nonce"].plain = Tape[b].nonce
            /\ table[a].box["pkceVerifier"].plain = Tape[b].pkceVerifier
            /\ table[a].box["context"].plain = context[b]
        BY <4>2, ProtectColumn DEF Field
      <4>4. Tape[b] = [state |-> Tape[b].state, nonce |-> Tape[b].nonce,
                       pkceVerifier |-> Tape[b].pkceVerifier]
        BY DEF TypeOK, Material
      <4> QED BY <4>2, <4>3, <4>4
              DEF Result, LoginMaterial, AttemptContext
    <3>3. TypeOK'
      <4>1. r \in [material : [state : Secret, nonce : Secret \cup Context,
                               pkceVerifier : Secret \cup Context],
                   context : Secret \cup Context]
        BY <3>2 DEF Result, TypeOK, Material
      <4> QED BY <3>1, <4>1 DEF TypeOK
    <3>4. RecoveredIsWhole'
      BY <3>1, <3>2 DEF RecoveredIsWhole
    <3> QED
      BY <3>1, <3>3, <3>4 DEF BegunDistinct, ShownIsOfBegun, ColumnsAreSealed
  <2>6. CASE UNCHANGED vars
    BY <2>6
    DEF vars, TypeOK, BegunDistinct, ShownIsOfBegun, ColumnsAreSealed, RecoveredIsWhole
  <2> QED BY <2>1, <2>2, <2>3, <2>4, <2>5, <2>6 DEF Next
<1>3. QED BY <1>1, <1>2, PTL DEF Spec

(* Recovery returns the material of one Begin with the context sealed by    *)
(* the same Begin, or nothing (login_recovery.go:14-17, api.go:218-233).    *)
THEOREM VaultWhole == Spec => []RecoveredIsWhole
<1>1. VaultInv => RecoveredIsWhole
  BY DEF VaultInv
<1>2. QED BY <1>1, VaultInductive, PTL

(* The verifier of no attempt, nor one that recovery hands to the code       *)
(* exchange, has been shown in any authorization URL, its own or another's,  *)
(* whatever the table did (authorization_url.go:55-68).                     *)
THEOREM VaultVerifier == Spec => []VerifierStaysBack
<1>1. VaultInv => VerifierStaysBack
  <2> SUFFICES ASSUME VaultInv PROVE VerifierStaysBack
    OBVIOUS
  <2>1. begun \subseteq Attempt
    BY DEF VaultInv, TypeOK
  <2>2. ASSUME NEW a \in begun PROVE Tape[a].pkceVerifier \notin shown
    <3> SUFFICES ASSUME Tape[a].pkceVerifier \in shown PROVE FALSE
      OBVIOUS
    <3>1. PICK b \in begun : Tape[a].pkceVerifier \in Shown(Tape[b])
      BY DEF VaultInv, ShownIsOfBegun
    <3> QED BY <2>1, <3>1, NoVerifierShown DEF VaultInv, BegunDistinct
  <2>3. ASSUME NEW r \in recovered PROVE r.material.pkceVerifier \notin shown
    <3>1. PICK a \in begun : r = Result(Tape[a], context[a])
      BY DEF VaultInv, RecoveredIsWhole
    <3> QED BY <2>2, <3>1 DEF Result
  <2> QED BY <2>2, <2>3 DEF VerifierStaysBack
<1>2. QED BY <1>1, VaultInductive, PTL

(* A fresh envelope opens under the state and the label it was sealed with. *)
LEMMA SealedOpens ==
  ASSUME NEW state, NEW label, NEW plaintext
  PROVE  Opens(Seal(state, label, plaintext), state, label)
BY DEF Opens, Seal

(* What Begin sealed opens again under its own state only, as long as the   *)
(* table leaves the row alone (login_recovery.go:42-77).                    *)
THEOREM VaultOpens == Spec => []UntouchedRowRecovers
<1>1. VaultInv => UntouchedRowRecovers
  <2> SUFFICES ASSUME VaultInv, NEW a \in begun,
                      table[a] = Protect(Tape[a], context[a]),
                      NEW state \in Secret
               PROVE  RecoversAttempt(state, table[a]) <=> state = Tape[a].state
    BY DEF UntouchedRowRecovers
  <2> DEFINE m == Tape[a]
  <2>1. m \in Material(Secret) /\ Distinct(m)
    BY TapeAssumption DEF VaultInv, TypeOK, BegunDistinct
  <2>2. /\ table[a].stateHash = StateHash(m.state)
        /\ \A f \in Field : table[a].box[f] = Column(m, context[a], f)
    BY DEF Protect
  <2>3. ASSUME RecoversAttempt(state, table[a]) PROVE state = m.state
    BY <2>2, <2>3 DEF RecoversAttempt, RecoversLoginMaterial, StateHash
  <2>4. ASSUME state = m.state PROVE RecoversAttempt(state, table[a])
    <3>1. ASSUME NEW f \in Field PROVE Opens(table[a].box[f], state, f)
      <4>1. PICK plaintext : Column(m, context[a], f) = Seal(m.state, f, plaintext)
        BY DEF Column
      <4>2. Opens(Seal(m.state, f, plaintext), m.state, f)
        BY SealedOpens
      <4>3. table[a].box[f] = Seal(m.state, f, plaintext)
        BY <2>2, <4>1
      <4>4. QED
        BY <2>4, <4>2, <4>3
    <3>2. LoginMaterial(state, table[a]) = m
      <4>1. table[a].box["nonce"].plain = m.nonce
        BY <2>2 DEF Column, Seal, Field
      <4>2. table[a].box["pkceVerifier"].plain = m.pkceVerifier
        BY <2>2 DEF Column, Seal, Field
      <4>3. QED
        BY <2>1, <2>4, <4>1, <4>2 DEF LoginMaterial, Material
    <3>3. QED
      BY <2>1, <2>2, <2>4, <3>1, <3>2
      DEF RecoversAttempt, RecoversLoginMaterial, OpensAttemptContext, Field
  <2>5. QED
    BY <2>3, <2>4
<1> QED
  BY <1>1, VaultInductive, PTL


-----------------------------------------------------------------------------
(* The request on its way out.                                             *)

(* Once Begin has gone on, the context holds what it was asked for.          *)
BegunAsAsked ==
  stage # "start" =>
    options \in Request!Options /\ sealed = Request!ContextOf(options)

(* What the browser has: a URL of whatever it likes, which is the reference   *)
(* to the request as it was meant if it is a reference at all.  The provider  *)
(* that requires one has it by then.                                         *)
InTheBrowser ==
  /\ stage \in {"start", "pushing"} => url = None
  /\ stage = "pushing" => Request!Pushes(options)
  /\ stage = "browser" =>
       /\ url \in Request!URL
       /\ IF url.reference THEN pushed = Request!RequestOf(options)
                           ELSE url.request \in Request!Request
       /\ policy.requirePAR => pushed = Request!RequestOf(options)

(* A sign-in is there once the provider has taken the parameters, and a       *)
(* login is completed only if the context admits it.                         *)
SignedIn ==
  /\ stage \in {"start", "pushing", "browser"} => processed = None
  /\ stage \in {"provider", "completed"} => processed \in Request!SignIn
  /\ stage = "completed" => Request!Admits(sealed, processed)

RequestInv ==
  /\ Request!TypeOK
  /\ BegunAsAsked /\ InTheBrowser /\ SignedIn
  /\ Request!RequiredArrivesIntact

(* What the library makes of options: a request and a context.              *)
LEMMA MadeOfOptions ==
  ASSUME NEW o \in Request!Options
  PROVE  /\ Request!ParametersOf(o) \in Request!Parameters
         /\ "openid" \in Request!ParametersOf(o).scope
         /\ Request!RequestOf(o) \in Request!Request
         /\ Request!RequestOf(o).parameters = Request!ParametersOf(o)
         /\ Request!RequestOf(o).signed = o.useRequestObject
         /\ Request!ContextOf(o) \in Request!SealedContext
  <1>1. Request!ScopeOf(o) \subseteq Request!Scope /\ "openid" \in Request!ScopeOf(o)
    BY DEF Request!ScopeOf, Request!Scope, Request!Options
  <1>2. /\ Request!ParametersOf(o) \in Request!Parameters
        /\ "openid" \in Request!ParametersOf(o).scope
    BY <1>1 DEF Request!ParametersOf, Request!Parameters, Request!Options
  <1>3. o.useRequestObject \in BOOLEAN /\ o.maxAge \in BOOLEAN /\ o.acr \in ACR \cup {None}
    BY DEF Request!Options
  <1> QED
    BY <1>2, <1>3 DEF Request!RequestOf, Request!Request, Request!ContextOf,
                      Request!SealedContext

(* A URL made of a request or of a reference.                                *)
LEMMA MadeURL ==
  ASSUME NEW r \in Request!Request \cup {None}, NEW b \in BOOLEAN
  PROVE  [reference |-> b, request |-> r] \in Request!URL
  BY DEF Request!URL

(* The request stays typed, and where the provider requires pushed requests   *)
(* the one it acts on is the one that was meant, though the browser may put   *)
(* any URL of plain parameters in the place of any other.                    *)
THEOREM RequestInductive == Request!Spec => []RequestInv
  <1>1. Request!Init => RequestInv
    BY DEF Request!Init, RequestInv, Request!TypeOK, Request!Phase, BegunAsAsked,
           InTheBrowser, SignedIn, Request!RequiredArrivesIntact
  <1>2. RequestInv /\ [Request!Next]_(Request!vars) => RequestInv'
    <2> SUFFICES ASSUME RequestInv, [Request!Next]_(Request!vars) PROVE RequestInv'
      OBVIOUS
    <2> USE DEF RequestInv
    <2>1. ASSUME NEW o \in Request!Options, Request!BeginContext(o)
          PROVE  RequestInv'
      <3>1. /\ options' = o /\ sealed' = Request!ContextOf(o)
            /\ processed' = None /\ UNCHANGED <<policy, pushed, refresh>>
        BY <2>1 DEF Request!BeginContext, SignedIn
      <3>2. CASE Request!Pushes(o)
        <4>1. stage' = "pushing" /\ url = None /\ url' = url
          BY <2>1, <3>2 DEF Request!BeginContext, InTheBrowser
        <4>2. Request!Pushes(o)'
          BY <3>1, <3>2 DEF Request!Pushes
        <4>3. InTheBrowser'
          BY <3>1, <4>1, <4>2 DEF InTheBrowser
        <4> QED
          BY <3>1, <4>1, <4>3, MadeOfOptions
          DEF Request!TypeOK, Request!Phase, BegunAsAsked, SignedIn,
              Request!RequiredArrivesIntact, Request!ContextOf
      <3>3. CASE ~Request!Pushes(o)
        <4>1. /\ stage' = "browser"
              /\ url' = [reference |-> FALSE, request |-> Request!RequestOf(o)]
          BY <2>1, <3>3 DEF Request!BeginContext
        <4>2. url' \in Request!URL
          BY <4>1, MadeURL, MadeOfOptions
        <4>3. ~url'.reference /\ url'.request = Request!RequestOf(o)
          BY <4>1
        <4>4. InTheBrowser'
          <5>1. Request!RequestOf(o) \in Request!Request
            BY MadeOfOptions
          <5> QED
            BY <3>1, <3>3, <4>1, <4>2, <4>3, <5>1 DEF InTheBrowser, Request!Pushes
        <4>5. Request!TypeOK'
          BY <3>1, <4>1, <4>2, <4>3, MadeOfOptions DEF Request!TypeOK, Request!Phase
        <4>6. ~policy'.requirePAR
          BY <3>1, <3>3 DEF Request!Pushes
        <4> QED
          BY <3>1, <4>1, <4>4, <4>5, <4>6
          DEF BegunAsAsked, SignedIn, Request!RequiredArrivesIntact, Request!ContextOf
      <3> QED
        BY <3>2, <3>3
    <2>2. CASE Request!PushAnswered
      <3>1. /\ options \in Request!Options
            /\ pushed' = Request!RequestOf(options)
            /\ url' = [reference |-> TRUE, request |-> None]
            /\ stage = "pushing" /\ stage' = "browser"
            /\ UNCHANGED <<policy, options, sealed, processed, refresh>>
        BY <2>2 DEF Request!PushAnswered, BegunAsAsked
      <3>2. url' \in Request!URL /\ url'.reference /\ url'.request = None
        BY <3>1, MadeURL
      <3>3. pushed' \in Request!Request /\ pushed' # None
        BY <3>1, MadeOfOptions, RequestAssumption
      <3>4. Request!RequestOf(options)' = Request!RequestOf(options)
        BY <3>1 DEF Request!RequestOf, Request!ParametersOf, Request!ScopeOf
      <3>5. InTheBrowser' /\ Request!RequiredArrivesIntact'
        BY <3>1, <3>2, <3>4 DEF InTheBrowser, SignedIn, Request!RequiredArrivesIntact
      <3>6. "openid" \in pushed'.parameters.scope
        BY <3>1, MadeOfOptions
      <3> QED
        BY <3>1, <3>2, <3>3, <3>5, <3>6
        DEF Request!TypeOK, Request!Phase, BegunAsAsked, SignedIn
    <2>3. CASE Request!PushFails
      <3>1. /\ options \in Request!Options
            /\ pushed' \in Request!Request \cup {None}
            /\ pushed' # None => "openid" \in pushed'.parameters.scope
            /\ url = None /\ stage = "pushing" /\ stage' = "failed"
            /\ UNCHANGED <<policy, options, sealed, url, processed, refresh>>
        BY <2>3, MadeOfOptions DEF Request!PushFails, BegunAsAsked, InTheBrowser
      <3> QED
        BY <3>1
        DEF Request!TypeOK, Request!Phase, BegunAsAsked, InTheBrowser, SignedIn,
            Request!RequiredArrivesIntact
    <2>4. CASE Request!Complete
      <3>1. /\ stage = "provider"
            /\ stage' = IF Request!Admits(sealed, processed) THEN "completed" ELSE "failed"
            /\ UNCHANGED <<policy, options, sealed, pushed, url, processed, refresh>>
        BY <2>4 DEF Request!Complete
      <3> QED
        BY <3>1
        DEF Request!TypeOK, Request!Phase, BegunAsAsked, InTheBrowser, SignedIn,
            Request!RequiredArrivesIntact, Request!Admits
    <2>5. ASSUME NEW scopes \in SUBSET {"api", "offline_access"},
                 Request!Refresh(scopes)
          PROVE  RequestInv'
      <3>1. Request!ScopeOf([scopes |-> scopes, offlineAccess |-> FALSE])
              \subseteq Request!Scope
        BY DEF Request!ScopeOf, Request!Scope
      <3>2. refresh' \in Request!Refreshed
        BY <2>5, <3>1 DEF Request!Refresh, Request!Refreshed
      <3>3. UNCHANGED <<policy, stage, options, sealed, pushed, url, processed>>
        BY <2>5 DEF Request!Refresh
      <3> QED
        BY <3>2, <3>3
        DEF Request!TypeOK, BegunAsAsked, InTheBrowser, SignedIn,
            Request!RequiredArrivesIntact, Request!Pushes
    <2>6. CASE Request!Alter
      <3>1. /\ stage = "browser" /\ url \in Request!URL
            /\ UNCHANGED <<policy, stage, options, sealed, pushed, processed, refresh>>
        BY <2>6 DEF Request!Alter, InTheBrowser
      <3>2. PICK p \in Altered :
              url' = [reference |-> FALSE,
                      request |-> [signed |-> FALSE, parameters |-> p]]
        BY <2>6 DEF Request!Alter
      <3>3. PICK q : q = [signed |-> FALSE, parameters |-> p]
        OBVIOUS
      <3>4. q \in Request!Request
        BY <3>3, RequestAssumption DEF Request!Request
      <3>5. url' \in Request!URL /\ url'.request = q /\ ~url'.reference
        BY <3>2, <3>3, <3>4, MadeURL
      <3>6. InTheBrowser'
        BY <3>1, <3>4, <3>5 DEF InTheBrowser, Request!RequestOf, Request!ParametersOf,
           Request!ScopeOf
      <3> QED
        BY <3>1, <3>5, <3>6
        DEF Request!TypeOK, BegunAsAsked, SignedIn, Request!RequiredArrivesIntact,
            Request!RequestOf, Request!ParametersOf, Request!ScopeOf
    <2>7. CASE Request!ProviderSignsIn
      <3>1. /\ stage = "browser" /\ stage' = "provider"
            /\ UNCHANGED <<policy, options, sealed, pushed, url, refresh>>
            /\ options \in Request!Options
            /\ policy.requirePAR => url.reference
        BY <2>7 DEF Request!ProviderSignsIn, BegunAsAsked
      <3>2. PICK acr \in ACR \cup {None}, old \in BOOLEAN :
              processed' = [parameters |-> Request!Taken.parameters, acr |-> acr,
                            old |-> old]
        BY <2>7 DEF Request!ProviderSignsIn
      <3>3. /\ Request!Taken \in Request!Request
            /\ policy.requirePAR => Request!Taken = Request!RequestOf(options)
        BY <3>1, MadeOfOptions DEF InTheBrowser, Request!Taken
      <3>4. Request!Taken.parameters \in Request!Parameters
        BY <3>3 DEF Request!Request
      <3>5. processed' \in Request!SignIn
        BY <3>2, <3>4 DEF Request!SignIn
      <3>6. processed'.parameters = Request!Taken.parameters
        BY <3>2
      <3>7. Request!RequiredArrivesIntact'
        BY <3>1, <3>3, <3>6, MadeOfOptions
        DEF Request!RequiredArrivesIntact, Request!Pushes, Request!ParametersOf,
            Request!ScopeOf
      <3> QED
        BY <3>1, <3>5, <3>7
        DEF Request!TypeOK, Request!Phase, BegunAsAsked, InTheBrowser, SignedIn
    <2>8. CASE UNCHANGED Request!vars
      BY <2>8
      DEF Request!vars, Request!TypeOK, BegunAsAsked, InTheBrowser, SignedIn,
          Request!RequiredArrivesIntact, Request!Pushes
    <2> QED
      BY <2>1, <2>2, <2>3, <2>4, <2>5, <2>6, <2>7, <2>8 DEF Request!Next
  <1> QED
    BY <1>1, <1>2, PTL DEF Request!Spec

(* Where the provider requires pushed requests it signs in for the request    *)
(* that was meant and no other; and everywhere a login that completes         *)
(* satisfies the max_age and the ACR that were asked for, though the browser  *)
(* may have replaced the URL, protected or not, and the provider never seen   *)
(* them (authorization_url.go:144-149, exchange.go:158-172).                 *)
THEOREM RequestHonoured == Request!Spec => []AskedIsHonoured
  <1>1. RequestInv => AskedIsHonoured
    BY DEF RequestInv, AskedIsHonoured, Request!AskedIsHonoured, BegunAsAsked, SignedIn,
           Request!PolicySurvivesTheBrowser, Request!Admits, Request!ContextOf
  <1> QED
    BY <1>1, RequestInductive, PTL

-----------------------------------------------------------------------------
(* The response on its way back.                                           *)

(* Where each phase has the response: nowhere yet, a JWT alone, or one that   *)
(* complete() can tell to be a success or an error.                          *)
ResponseAt ==
  /\ decoding = "arrived" => claim = Returned!Absent /\ response = Returned!Absent
  /\ decoding = "JWT" => Returned!IsJWT(response)
  /\ decoding = "parsed" => Returned!IsSuccess(response) \/ Returned!IsError(response)

ReturnedInv ==
  /\ Returned!TypeOK
  /\ ResponseAt
  /\ ResponseIsUnambiguous

(* The seven parameters of a response, each with its value.                  *)
LEMMA ValuesOf ==
  ASSUME NEW v \in Returned!Parameters
  PROVE  /\ v["code"] \in {"absent", "empty", "good", "long", "bad"}
         /\ \A n \in {"state", "iss", "response", "error", "error_description",
                      "error_uri"} : v[n] \in {"absent", "empty", "good", "bad"}
  BY DEF Returned!Parameters, Returned!Name, Returned!Value

(* The order of ParseCallback's checks lets through the grammar.              *)
LEMMA ParsesGrammar ==
  ASSUME NEW v \in Returned!Parameters, NEW more \in BOOLEAN
  PROVE  Returned!Parses(v, more) <=>
           ~more /\ (Returned!IsDirect(v) \/ Returned!IsJWT(v))
  <1>1. ASSUME Returned!Parses(v, more)
        PROVE  Returned!IsDirect(v) \/ Returned!IsJWT(v)
    <2>1. CASE v["response"] = "absent"
      BY <1>1, <2>1, ValuesOf
      DEF Returned!Parses, Returned!Clean, Returned!NotEmpty, Returned!ErrorShape,
          Returned!SuccessShape, Returned!Has, Returned!Blank, Returned!IsDirect,
          Returned!IsSuccess, Returned!IsError, Returned!Name, Returned!ErrorDetail
    <2>2. CASE v["response"] # "absent"
      BY <1>1, <2>2, ValuesOf
      DEF Returned!Parses, Returned!Clean, Returned!Combines, Returned!Has,
          Returned!Blank, Returned!IsJWT, Returned!Name
    <2> QED
      BY <2>1, <2>2
  <1>2. ASSUME ~more, Returned!IsDirect(v) PROVE Returned!Parses(v, more)
    BY <1>2, ValuesOf
    DEF Returned!Parses, Returned!Clean, Returned!Combines, Returned!NotEmpty,
        Returned!ErrorShape, Returned!SuccessShape, Returned!Has, Returned!Blank,
        Returned!IsDirect, Returned!IsSuccess, Returned!IsError, Returned!Name,
        Returned!ErrorDetail
  <1>3. ASSUME ~more, Returned!IsJWT(v) PROVE Returned!Parses(v, more)
    BY <1>3
    DEF Returned!Parses, Returned!Clean, Returned!Combines, Returned!NotEmpty,
        Returned!Has, Returned!Blank, Returned!IsJWT, Returned!Name,
        Returned!ErrorDetail
  <1> QED
    BY <1>1, <1>2, <1>3 DEF Returned!Parses

(* The decoder of a JWT response takes the same, with an issuer.             *)
LEMMA OpensGrammar ==
  ASSUME NEW c \in Returned!Claims
  PROVE  Returned!Opens(c) <=> Returned!IsDirect(c) /\ c["iss"] = "good"
  <1>1. c \in Returned!Parameters /\ c["response"] = "absent"
    BY DEF Returned!Claims
  <1>2. ASSUME Returned!Opens(c) PROVE Returned!IsDirect(c) /\ c["iss"] = "good"
    BY <1>1, <1>2, ValuesOf
    DEF Returned!Opens, Returned!Clean, Returned!NotEmpty, Returned!ErrorShape,
        Returned!SuccessShape, Returned!Has, Returned!Blank, Returned!IsDirect,
        Returned!IsSuccess, Returned!IsError, Returned!Name, Returned!ErrorDetail
  <1>3. ASSUME Returned!IsDirect(c), c["iss"] = "good" PROVE Returned!Opens(c)
    BY <1>1, <1>3, ValuesOf
    DEF Returned!Opens, Returned!Clean, Returned!NotEmpty, Returned!ErrorShape,
        Returned!SuccessShape, Returned!Has, Returned!Blank, Returned!IsDirect,
        Returned!IsSuccess, Returned!IsError, Returned!Name, Returned!ErrorDetail
  <1> QED
    BY <1>2, <1>3

(* What is taken over from a response of the grammar is that response.       *)
LEMMA ResponseOfGrammar ==
  ASSUME NEW v \in Returned!Parameters
  PROVE  /\ Returned!IsDirect(v) \/ Returned!IsJWT(v) =>
              /\ Returned!Response(v) \in Returned!Parameters
              /\ \A n \in Returned!Name : Returned!Response(v)[n] \notin {"empty", "bad"}
              /\ Returned!Response(v) # Returned!Absent
         /\ Returned!IsDirect(v) =>
              /\ Returned!Response(v)["response"] = "absent"
              /\ Returned!IsSuccess(Returned!Response(v))
                   \/ Returned!IsError(Returned!Response(v))
         /\ Returned!IsJWT(v) => Returned!IsJWT(Returned!Response(v))
  <1>1. PICK r : r = Returned!Response(v)
    OBVIOUS
  <1>2. \A n \in Returned!Name :
          r[n] = IF v[n] \in {"absent", "empty"} THEN "absent" ELSE v[n]
    BY <1>1 DEF Returned!Response, Returned!Blank
  <1>3. /\ r \in [Returned!Name -> Returned!Value]
        /\ \A n \in Returned!Name \ {"code"} : r[n] # "long"
    BY <1>1, <1>2 DEF Returned!Response, Returned!Blank, Returned!Parameters, Returned!Value
  <1>4. r \in Returned!Parameters
    BY <1>3 DEF Returned!Parameters
  <1>5. ASSUME Returned!IsDirect(v)
        PROVE  /\ r["response"] = "absent" /\ r # Returned!Absent
               /\ \A n \in Returned!Name : r[n] \notin {"empty", "bad"}
               /\ Returned!IsSuccess(r) \/ Returned!IsError(r)
    BY <1>2, <1>5
    DEF Returned!IsDirect, Returned!IsSuccess, Returned!IsError, Returned!Name,
        Returned!ErrorDetail, Returned!Absent
  <1>6. ASSUME Returned!IsJWT(v)
        PROVE  /\ Returned!IsJWT(r) /\ r # Returned!Absent
               /\ \A n \in Returned!Name : r[n] \notin {"empty", "bad"}
    BY <1>2, <1>6 DEF Returned!IsJWT, Returned!Name, Returned!Absent
  <1> QED
    BY <1>1, <1>4, <1>5, <1>6

(* The decoders and their consumer keep to the grammar.                      *)
THEOREM ReturnedInductive == Returned!Spec => []ReturnedInv
  <1> USE DEF ReturnedInv, ResponseAt, ResponseIsUnambiguous,
              Returned!ResponseIsUnambiguous
  <1>1. Returned!Absent \in Returned!Claims
    BY DEF Returned!Absent, Returned!Claims, Returned!Parameters, Returned!Value,
           Returned!Name
  <1>2. Returned!Init => ReturnedInv
    BY <1>1
    DEF Returned!Init, Returned!TypeOK, Returned!ParsedIsGrammar,
        Returned!DecodersAgree, Returned!DecodedIsConsumed, Returned!Claims,
        Returned!Absent
  <1>3. ReturnedInv /\ [Returned!Next]_(Returned!vars) => ReturnedInv'
    <2> SUFFICES ASSUME ReturnedInv, [Returned!Next]_(Returned!vars)
                 PROVE  ReturnedInv'
      OBVIOUS
    <2>1. CASE Returned!ParseCallback
      <3>1. /\ parameter \in Returned!Parameters /\ excess \in BOOLEAN
            /\ claim = Returned!Absent /\ response = Returned!Absent
            /\ UNCHANGED <<parameter, excess>>
        BY <2>1 DEF Returned!ParseCallback, Returned!TypeOK
      <3>2. CASE ~Returned!Parses(parameter, excess)
        <4>1. decoding' = "refused" /\ UNCHANGED <<claim, response>>
          BY <2>1, <3>2 DEF Returned!ParseCallback
        <4> QED
          BY <3>1, <3>2, <4>1, ParsesGrammar
          DEF Returned!TypeOK, Returned!ParsedIsGrammar, Returned!DecodersAgree,
              Returned!DecodedIsConsumed, Returned!Absent
      <3>3. CASE Returned!Parses(parameter, excess)
        <4>1. /\ response' = Returned!Response(parameter)
              /\ ~excess /\ (Returned!IsDirect(parameter) \/ Returned!IsJWT(parameter))
          BY <2>1, <3>1, <3>3, ParsesGrammar DEF Returned!ParseCallback
        <4>2. /\ response' \in Returned!Parameters /\ response' # Returned!Absent
              /\ \A n \in Returned!Name : response'[n] \notin {"empty", "bad"}
          BY <3>1, <4>1, ResponseOfGrammar
        <4>3. CASE Returned!IsJWT(parameter)
          <5>1. decoding' = "JWT" /\ claim' \in Returned!Claims
            BY <2>1, <3>3, <4>3 DEF Returned!ParseCallback, Returned!Has, Returned!IsJWT
          <5>2. Returned!IsJWT(response')
            BY <3>1, <4>1, <4>3, ResponseOfGrammar
          <5> QED
            BY <3>1, <4>1, <4>2, <5>1, <5>2
            DEF Returned!TypeOK, Returned!ParsedIsGrammar, Returned!DecodersAgree,
                Returned!DecodedIsConsumed, Returned!Absent, Returned!IsDirect,
                Returned!IsSuccess, Returned!IsError, Returned!IsJWT
        <4>4. CASE Returned!IsDirect(parameter)
          <5>1. decoding' = "parsed" /\ claim' = Returned!Absent
            BY <2>1, <3>3, <4>4
            DEF Returned!ParseCallback, Returned!Has, Returned!IsDirect
          <5>2. Returned!IsSuccess(response') \/ Returned!IsError(response')
            BY <3>1, <4>1, <4>4, ResponseOfGrammar
          <5> QED
            BY <1>1, <3>1, <4>1, <4>2, <5>1, <5>2
            DEF Returned!TypeOK, Returned!ParsedIsGrammar, Returned!DecodersAgree,
                Returned!DecodedIsConsumed, Returned!Absent, Returned!IsDirect,
                Returned!IsSuccess, Returned!IsError, Returned!IsJWT
        <4> QED
          BY <4>1, <4>3, <4>4
      <3> QED
        BY <3>2, <3>3
    <2>2. CASE Returned!OpenJWT
      <3>1. /\ claim \in Returned!Claims /\ claim \in Returned!Parameters
            /\ Returned!IsJWT(response) /\ UNCHANGED <<parameter, excess, claim>>
        BY <2>2 DEF Returned!OpenJWT, Returned!TypeOK, Returned!Claims
      <3>2. CASE Returned!Opens(claim)
        <4>1. decoding' = "parsed" /\ response' = Returned!Response(claim)
          BY <2>2, <3>1, <3>2 DEF Returned!OpenJWT, Returned!IsJWT
        <4>2. Returned!IsDirect(claim) /\ claim["iss"] = "good"
          BY <3>1, <3>2, OpensGrammar
        <4>3. /\ response' \in Returned!Parameters
              /\ \A n \in Returned!Name : response'[n] \notin {"empty", "bad"}
              /\ response'["response"] = "absent"
              /\ Returned!IsSuccess(response') \/ Returned!IsError(response')
          BY <3>1, <4>1, <4>2, ResponseOfGrammar
        <4>4. claim # Returned!Absent
          BY <4>2 DEF Returned!Absent, Returned!Name
        <4> QED
          BY <3>1, <4>1, <4>2, <4>3, <4>4
          DEF Returned!TypeOK, Returned!ParsedIsGrammar, Returned!DecodersAgree,
              Returned!DecodedIsConsumed, Returned!Absent, Returned!IsDirect,
              Returned!IsSuccess, Returned!IsError
      <3>3. CASE ~Returned!Opens(claim)
        <4>1. decoding' = "refused" /\ UNCHANGED response /\ decoding = "JWT"
          BY <2>2, <3>3 DEF Returned!OpenJWT
        <4>2. ~(Returned!IsDirect(claim) /\ claim["iss"] = "good")
          BY <3>1, <3>3, OpensGrammar
        <4> QED
          BY <3>1, <4>1, <4>2
          DEF Returned!TypeOK, Returned!ParsedIsGrammar, Returned!DecodersAgree,
              Returned!DecodedIsConsumed, Returned!Absent, Returned!IsDirect,
              Returned!IsSuccess, Returned!IsError, Returned!IsJWT
      <3> QED
        BY <3>2, <3>3
    <2>3. CASE Returned!Complete
      <3>1. /\ decoding = "parsed" /\ UNCHANGED <<parameter, excess, claim, response>>
            /\ decoding' =
                 IF response["error"] = "good" /\ response["code"] = "absent"
                 THEN "error"
                 ELSE IF response["error"] = "absent" /\ response["code"] = "good"
                      THEN "code" ELSE "refused"
        BY <2>3 DEF Returned!Complete
      <3> QED
        BY <3>1
        DEF Returned!TypeOK, Returned!ParsedIsGrammar, Returned!DecodersAgree,
            Returned!DecodedIsConsumed, Returned!Absent, Returned!IsDirect,
            Returned!IsSuccess, Returned!IsError, Returned!IsJWT, Returned!ErrorDetail
    <2>4. CASE UNCHANGED Returned!vars
      BY <2>4
      DEF Returned!vars, Returned!TypeOK, Returned!ParsedIsGrammar,
          Returned!DecodersAgree, Returned!DecodedIsConsumed, Returned!Absent,
          Returned!IsDirect, Returned!IsSuccess, Returned!IsError, Returned!IsJWT
    <2> QED
      BY <2>1, <2>2, <2>3, <2>4 DEF Returned!Next
  <1> QED
    BY <1>2, <1>3, PTL DEF Returned!Spec

(* Exactly the grammar of a response is decoded, by either decoder, and       *)
(* complete() has no other opinion of what was (callback.go:101-168,         *)
(* jose.go:155-188, api.go:200-254).                                        *)
THEOREM ReturnedUnambiguous == Returned!Spec => []ResponseIsUnambiguous
  BY ReturnedInductive, PTL DEF ReturnedInv

-----------------------------------------------------------------------------
(* The three side by side.                                                 *)

(* A behaviour of the whole is one of each part, seen by itself: what is      *)
(* proved of the parts holds of the run that checks them together.           *)
THEOREM BrowserIsEach ==
  BrowserSpec => Spec /\ Request!Spec /\ Returned!Spec
  <1>1. RequestRests => Request!Init
    <2>1. [enablePAR |-> FALSE, requirePAR |-> FALSE, parEndpoint |-> FALSE,
           claimsParameter |-> FALSE, signer |-> FALSE] \in Request!Policy
      BY DEF Request!Policy
    <2> QED
      BY <2>1 DEF RequestRests, Request!Init
  <1>2. ReturnedRests => Returned!Init
    BY DEF ReturnedRests, Returned!Init, Returned!Absent, Returned!Parameters,
           Returned!Value, Returned!Name
  <1>3. BrowserInit => Init /\ Request!Init /\ Returned!Init
    BY <1>1, <1>2 DEF BrowserInit
  <1>4. [BrowserNext]_<<vars, requestVars, returnedVars, part>> =>
          /\ [Next]_vars
          /\ [Request!Next]_(Request!vars)
          /\ [Returned!Next]_(Returned!vars)
    BY DEF BrowserNext, requestVars, returnedVars, Request!vars, Returned!vars
  <1> QED
    BY <1>3, <1>4, PTL DEF BrowserSpec, Spec, Request!Spec, Returned!Spec

(* The table, the request and the response keep their types.                  *)
THEOREM BrowserTypes == BrowserSpec => []BrowserTypeOK
  <1>1. VaultInv /\ RequestInv /\ ReturnedInv => BrowserTypeOK
    BY DEF VaultInv, RequestInv, ReturnedInv, BrowserTypeOK
  <1> QED
    BY <1>1, VaultInductive, RequestInductive, ReturnedInductive, BrowserIsEach, PTL

=============================================================================
