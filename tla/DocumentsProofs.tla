-------------------------- MODULE DocumentsProofs --------------------------
(***************************************************************************)
(* For whatever two documents say and whatever the policy asks for: whose  *)
(* word an admitted email is, and that UserInfo has the last one.  For any *)
(* number of relying parties, whomever they trust, and any number of JWTs: *)
(* an ID token is for one relying party, and no JWT passes for a login, an *)
(* authorization response or a logout token that is none.                  *)
(***************************************************************************)
EXTENDS MCDocuments, TLAPS

-----------------------------------------------------------------------------
(* The claims and the profile.                                             *)

(* The claims that are validated in the end. *)
Final == IF policy.useUserInfo THEN Merged(idToken, userInfo) ELSE idToken

(* At every stage the map is what the documents make of it, and a profile    *)
(* is what validation takes from it, or nobody.                             *)
ClaimsInv ==
  /\ TypeOK
  /\ stage = "fetch" => policy.useUserInfo /\ claims = idToken
  /\ stage \in {"validate", "admitted"} => claims = Final
  /\ stage # "admitted" => profile = Nobody
  /\ stage = "admitted" =>
       profile = [name |-> claims.name, email |-> AcceptedEmail(claims),
                  picture |-> claims.picture]

(* Merging keeps the shape of a document, and takes each claim from UserInfo *)
(* if it is there and from the ID token if not.                             *)
LEMMA MergedIs ==
  ASSUME NEW base \in Claims, NEW info \in Claims
  PROVE  /\ Merged(base, info) \in Claims
         /\ \A n \in {"name", "email", "email_verified", "picture"} :
              Merged(base, info)[n] = IF info[n] # Absent THEN info[n] ELSE base[n]
  BY DEF Claims, Claim, Merged

(* What validation admits is a profile. *)
LEMMA AdmittedIsProfile ==
  ASSUME NEW c \in Claims, WellFormed(c)
  PROVE  [name |-> c.name, email |-> AcceptedEmail(c), picture |-> c.picture]
           \in Profile
  <1>1. c.name # Malformed /\ c.email # Malformed /\ c.picture # Malformed
    BY DEF Claims, WellFormed
  <1>2. c.name \in Name \cup {Absent} /\ c.picture \in Picture \cup {Absent}
    BY <1>1 DEF Claims, Claim
  <1>3. c.email \in Email \cup {Absent}
    BY <1>1 DEF Claims, Claim
  <1>4. AcceptedEmail(c) \in Email \cup {Absent}
    BY <1>3 DEF AcceptedEmail
  <1> QED
    BY <1>2, <1>4 DEF Profile

(* The invariant holds of every login. *)
THEOREM ClaimsInductive == Spec => []ClaimsInv
  <1>1. Init => ClaimsInv
    <2> SUFFICES ASSUME Init PROVE ClaimsInv
      OBVIOUS
    <2>1. TypeOK
      BY DEF Init, TypeOK, Profile, Nobody
    <2> QED
      BY <2>1 DEF Init, ClaimsInv, Final
  <1>2. ClaimsInv /\ [Next]_vars => ClaimsInv'
    <2> SUFFICES ASSUME ClaimsInv, [Next]_vars PROVE ClaimsInv'
      OBVIOUS
    <2>1. CASE Merge
      <3>1. claims' = Merged(idToken, userInfo) /\ policy.useUserInfo
        BY <2>1 DEF ClaimsInv, Merge
      <3>2. claims' \in Claims
        BY <3>1, MergedIs DEF ClaimsInv, TypeOK
      <3>3. claims' = Final'
        BY <2>1, <3>1 DEF Merge, Final, Merged
      <3> QED
        BY <2>1, <3>2, <3>3 DEF ClaimsInv, TypeOK, Merge
    <2>2. CASE FetchFails
      BY <2>2 DEF ClaimsInv, TypeOK, FetchFails
    <2>3. CASE Validate
      <3>1. claims' = claims /\ claims' = Final'
        BY <2>3 DEF ClaimsInv, Validate, Final, Merged
      <3>2. CASE stage' = "admitted"
        <4>1. profile' = [name |-> claims.name, email |-> AcceptedEmail(claims),
                          picture |-> claims.picture] /\ WellFormed(claims)
          BY <2>3, <3>2 DEF Validate, Accepts
        <4>2. profile' \in Profile
          BY <4>1, AdmittedIsProfile DEF ClaimsInv, TypeOK
        <4> QED
          BY <2>3, <3>1, <3>2, <4>1, <4>2
          DEF ClaimsInv, TypeOK, Validate, AcceptedEmail
      <3>3. CASE stage' = "refused"
        BY <2>3, <3>1, <3>3 DEF ClaimsInv, TypeOK, Validate
      <3> QED
        BY <2>3, <3>2, <3>3 DEF Validate
    <2>4. CASE UNCHANGED vars
      BY <2>4 DEF ClaimsInv, TypeOK, vars, Final, Merged, AcceptedEmail
    <2> QED
      BY <2>1, <2>2, <2>3, <2>4 DEF Next
  <1> QED
    BY <1>1, <1>2, PTL DEF Spec

(* An admitted email is one that a single document has called verified, if  *)
(* UserInfo speaks of both or of neither (identity_claims.go:71-92).         *)
THEOREM ClaimsVouched == Spec => []PairedEmailIsVouched
  <1>1. ClaimsInv => PairedEmailIsVouched
    <2> SUFFICES ASSUME ClaimsInv, Paired \/ ~policy.useUserInfo,
                        profile.email # Absent
                 PROVE  Vouched(profile.email)
      BY DEF PairedEmailIsVouched
    <2>1. stage = "admitted" /\ claims = Final /\ profile.email = AcceptedEmail(claims)
      BY DEF ClaimsInv, Nobody
    <2>2. claims.email_verified = TRUE /\ profile.email = claims.email
      BY <2>1 DEF AcceptedEmail
    <2>3. CASE ~policy.useUserInfo
      BY <2>1, <2>2, <2>3 DEF Final, Vouched, Seen
    <2>4. CASE policy.useUserInfo
      <3>1. /\ claims.email = IF userInfo.email # Absent THEN userInfo.email
                                                         ELSE idToken.email
            /\ claims.email_verified =
                 IF userInfo.email_verified # Absent THEN userInfo.email_verified
                                                     ELSE idToken.email_verified
        BY <2>1, <2>4, MergedIs DEF Final, ClaimsInv, TypeOK
      <3>2. Paired
        BY <2>4
      <3> QED
        BY <2>2, <2>4, <3>1, <3>2 DEF Paired, Vouched, Seen
    <2> QED
      BY <2>3, <2>4
  <1> QED
    BY <1>1, ClaimsInductive, PTL

(* What UserInfo contradicts is in no profile, and an email it calls        *)
(* unverified is withdrawn (exchange.go:96-100).                            *)
THEOREM ClaimsLastWord == Spec => []UserInfoHasTheLastWord
  <1>1. ClaimsInv => UserInfoHasTheLastWord
    <2> SUFFICES ASSUME ClaimsInv, stage = "admitted", policy.useUserInfo
                 PROVE  /\ \A n \in {"name", "email", "picture"} :
                             userInfo[n] # Absent => profile[n] \in {userInfo[n], Absent}
                        /\ userInfo.email_verified = FALSE => profile.email = Absent
      BY DEF UserInfoHasTheLastWord
    <2>1. /\ claims = Merged(idToken, userInfo)
          /\ profile = [name |-> claims.name, email |-> AcceptedEmail(claims),
                        picture |-> claims.picture]
      BY DEF ClaimsInv, Final
    <2>2. \A n \in {"name", "email", "email_verified", "picture"} :
            claims[n] = IF userInfo[n] # Absent THEN userInfo[n] ELSE idToken[n]
      BY <2>1, MergedIs DEF ClaimsInv, TypeOK
    <2>3. userInfo.email_verified = FALSE => claims.email_verified = FALSE
      BY <2>2, ValueAssumption
    <2>4. profile.email \in {claims.email, Absent}
      BY <2>1 DEF AcceptedEmail
    <2> QED
      BY <2>1, <2>2, <2>3, <2>4 DEF AcceptedEmail
  <1> QED
    BY <1>1, ClaimsInductive, PTL

-----------------------------------------------------------------------------
(* The verifiers.                                                          *)

(* What was accepted, its verifier has seen: all but the subject, which may  *)
(* change with the next login.                                              *)
Verified(a) ==
  /\ a.purpose = "login" => Verifiers!VerifiesLogin(a.client, a.jwt, a.access)
  /\ a.purpose = "refresh" => Verifiers!VerifiesIDToken(a.client, a.jwt)
  /\ a.purpose = "response" => Verifiers!VerifiesResponse(a.client, a.jwt)
  /\ a.purpose = "logout" => Verifiers!VerifiesLogoutToken(a.client, a.jwt)

PurposeInv ==
  /\ issued \subseteq Verifiers!JWT
  /\ \A a \in accepted : a.client \in Client /\ a.jwt \in issued /\ Verified(a)

(* Whatever purpose a JWT is accepted for, the invariant needs its verifier. *)
LEMMA AcceptKeeps ==
  ASSUME PurposeInv, issued' = issued,
         NEW c \in Client, NEW purpose, NEW j \in issued, NEW access,
         Verifiers!Accept(c, purpose, j, access),
         Verified([client |-> c, purpose |-> purpose, jwt |-> j, access |-> access])
  PROVE  PurposeInv'
  <1>1. \A a \in accepted' :
          a \in accepted \/
          a = [client |-> c, purpose |-> purpose, jwt |-> j, access |-> access]
    BY DEF Verifiers!Accept
  <1>2. \A a \in accepted' :
          a.client \in Client /\ a.jwt \in issued' /\ Verified(a)
    BY <1>1 DEF PurposeInv
  <1> QED
    BY <1>2 DEF PurposeInv, Verified, Verifiers!VerifiesLogin, Verifiers!VerifiesIDToken,
                Verifiers!VerifiesResponse, Verifiers!VerifiesLogoutToken, Verifiers!AuthorizedParty,
                Verifiers!NonceMatches, Verifiers!ResponseAudience, Verifiers!IsLogoutToken

(* Every verifier that was passed stays passed. *)
THEOREM PurposeInductive == Verifiers!Spec => []PurposeInv
  <1>1. Verifiers!Init => PurposeInv
    BY DEF Verifiers!Init, PurposeInv
  <1>2. PurposeInv /\ [Verifiers!Next]_(Verifiers!vars) => PurposeInv'
    <2> SUFFICES ASSUME PurposeInv, [Verifiers!Next]_(Verifiers!vars) PROVE PurposeInv'
      OBVIOUS
    <2>1. CASE Verifiers!Issue
      BY <2>1 DEF Verifiers!Issue, PurposeInv
    <2>2. CASE \E c \in Client : Verifiers!EarlierLogin(c)
      BY <2>2 DEF Verifiers!EarlierLogin, PurposeInv
    <2>3. ASSUME NEW c \in Client, NEW j \in issued, NEW access \in AccessToken,
                 Verifiers!Login(c, j, access)
          PROVE  PurposeInv'
      BY <2>3, AcceptKeeps DEF Verifiers!Login, Verified
    <2>4. ASSUME NEW c \in Client, NEW j \in issued, NEW access \in AccessToken,
                 Verifiers!Refresh(c, j, access)
          PROVE  PurposeInv'
      BY <2>4, AcceptKeeps DEF Verifiers!Refresh, Verified, Verifiers!VerifiesRefresh
    <2>5. ASSUME NEW c \in Client, NEW j \in issued, Verifiers!Response(c, j)
          PROVE  PurposeInv'
      BY <2>5, AcceptKeeps DEF Verifiers!Response, Verified
    <2>6. ASSUME NEW c \in Client, NEW j \in issued, Verifiers!Logout(c, j)
          PROVE  PurposeInv'
      BY <2>6, AcceptKeeps DEF Verifiers!Logout, Verified
    <2>7. ASSUME NEW c \in Client, NEW j \in issued, Verifiers!UserInfo(c, j)
          PROVE  PurposeInv'
      BY <2>7, AcceptKeeps DEF Verifiers!UserInfo, Verified
    <2>8. CASE UNCHANGED Verifiers!vars
      BY <2>8 DEF Verifiers!vars, PurposeInv
    <2> QED
      BY <2>1, <2>2, <2>3, <2>4, <2>5, <2>6, <2>7, <2>8 DEF Verifiers!Next
  <1> QED
    BY <1>1, <1>2, PTL DEF Verifiers!Spec

(* The audience or the authorized party names the one client an ID token or *)
(* an authorization response is for (exchange.go:135-157, jose.go:151).      *)
THEOREM PurposeOneParty == Verifiers!Spec => []OneRelyingParty
  <1>1. PurposeInv => OneRelyingParty
    <2> SUFFICES ASSUME PurposeInv,
                        NEW a \in accepted, NEW b \in accepted, a.jwt = b.jwt,
                        {a.purpose, b.purpose} \subseteq
                          {"login", "refresh", "response"}
                 PROVE  a.client = b.client
      BY DEF OneRelyingParty, Verifiers!OneRelyingParty
    <2> DEFINE For(x) == /\ x.client \in x.jwt.aud
                         /\ \/ x.jwt.aud = {x.client}
                            \/ x.jwt.azp # None /\ x.jwt.azp = x.client
    <2>1. ASSUME NEW x \in accepted, x.purpose \in {"login", "refresh", "response"}
          PROVE  For(x)
      <3>1. CASE x.purpose = "response"
        BY <2>1, <3>1 DEF PurposeInv, Verified, Verifiers!VerifiesResponse, Verifiers!ResponseAudience
      <3>2. CASE x.purpose # "response"
        <4>1. Verifiers!VerifiesIDToken(x.client, x.jwt)
          BY <2>1, <3>2 DEF PurposeInv, Verified, Verifiers!VerifiesLogin
        <4> QED
          BY <4>1 DEF Verifiers!VerifiesIDToken, Verifiers!AuthorizedParty
      <3> QED
        BY <3>1, <3>2
    <2>2. For(a) /\ For(b)
      BY <2>1
    <2>3. a.jwt.azp \in {None, a.client} \/ a.jwt.aud = {a.client}
      BY <2>2
    <2> QED
      BY <2>2, <2>3
  <1> QED
    BY <1>1, PurposeInductive, PTL

(* The type tells an authorization response and a logout token, the nonce   *)
(* the ID token of a login (jose.go:109, logout.go:96, exchange.go:79-84).   *)
THEOREM PurposeNoCrossUse == Verifiers!Spec => []NoCrossUse
  <1>1. PurposeInv => NoCrossUse
    <2> SUFFICES ASSUME PurposeInv, NEW a \in accepted,
                        a.purpose \in {"login", "response", "logout"}
                 PROVE  a.jwt.kind =
                          (IF a.purpose = "login" THEN "idToken" ELSE a.purpose)
      BY DEF NoCrossUse, Verifiers!NoCrossUse
    <2>1. /\ a.client \in Client
          /\ a.jwt.kind \in {"idToken", "response", "logout", "userinfo", "access"}
          /\ a.jwt.kind # "idToken" => a.jwt.nonce = None
      BY DEF PurposeInv, Verifiers!JWT, Verifiers!TypeOf
    <2>2. CASE a.purpose = "login"
      <3>1. a.jwt.nonce = a.client
        BY <2>2 DEF PurposeInv, Verified, Verifiers!VerifiesLogin, Verifiers!NonceMatches
      <3> QED
        BY <2>1, <2>2, <3>1, PartyAssumption
    <2>3. CASE a.purpose = "response"
      <3>1. Verifiers!TypeOf[a.jwt.kind] = "oauth-authz-resp+jwt"
        BY <2>3 DEF PurposeInv, Verified, Verifiers!VerifiesResponse
      <3> QED
        BY <2>1, <2>3, <3>1 DEF Verifiers!TypeOf
    <2>4. CASE a.purpose = "logout"
      <3>1. Verifiers!TypeOf[a.jwt.kind] = "logout+jwt"
        BY <2>4 DEF PurposeInv, Verified, Verifiers!VerifiesLogoutToken, Verifiers!IsLogoutToken
      <3> QED
        BY <2>1, <2>4, <3>1 DEF Verifiers!TypeOf
    <2> QED
      BY <2>2, <2>3, <2>4
  <1> QED
    BY <1>1, PurposeInductive, PTL

(* Accepting one more JWT keeps the types, if subjects are not forgotten.     *)
LEMMA AcceptTyped ==
  ASSUME Verifiers!TypeOK, issued' = issued,
         subject' \in [Client -> Subject \cup {None}],
         \A c \in Client : subject[c] # None => subject'[c] # None,
         NEW c \in Client, NEW purpose \in Verifiers!Purpose,
         NEW j \in issued, NEW access \in AccessToken \cup {None},
         Verifiers!Accept(c, purpose, j, access),
         c \in j.aud,
         purpose \in {"response", "logout"} \/ subject'[c] # None
  PROVE  Verifiers!TypeOK'
  <1> DEFINE new == [client |-> c, purpose |-> purpose, jwt |-> j, access |-> access]
  <1>1. new \in Verifiers!Acceptance
    BY DEF Verifiers!TypeOK, Verifiers!Acceptance
  <1>2. accepted' = accepted \cup {new}
    BY DEF Verifiers!Accept
  <1>3. \A a \in accepted : a.client \in Client
    BY DEF Verifiers!TypeOK, Verifiers!Acceptance
  <1>4. \A a \in accepted' :
          /\ a.jwt \in issued' /\ a.client \in a.jwt.aud
          /\ a.purpose \in {"response", "logout"} \/ subject'[a.client] # None
    BY <1>2, <1>3 DEF Verifiers!TypeOK
  <1> QED
    BY <1>1, <1>2, <1>4
    DEF Verifiers!TypeOK, Verifiers!Acceptance, Verifiers!JWT, Verifiers!TypeOf,
        Verifiers!Purpose

(* Only JWTs that are issued are accepted, by a client in their audience,    *)
(* and a refresh or UserInfo by a client where somebody is logged in: the    *)
(* nonce makes the JWT of a login an ID token, and that has a subject.       *)
THEOREM PurposeTypes == Verifiers!Spec => []Verifiers!TypeOK
  <1>1. Verifiers!Init => Verifiers!TypeOK
    BY DEF Verifiers!Init, Verifiers!TypeOK
  <1>2. Verifiers!TypeOK /\ [Verifiers!Next]_(Verifiers!vars) => Verifiers!TypeOK'
    <2> SUFFICES ASSUME Verifiers!TypeOK, [Verifiers!Next]_(Verifiers!vars)
                 PROVE  Verifiers!TypeOK'
      OBVIOUS
    <2> DEFINE Same == UNCHANGED <<issued, subject>>
    <2>a. /\ subject \in [Client -> Subject \cup {None}]
          /\ \A j \in issued : j \in Verifiers!JWT
      BY DEF Verifiers!TypeOK
    <2>1. CASE Verifiers!Issue
      <3>1. accepted = {}
        BY <2>1 DEF Verifiers!Issue, Verifiers!TypeOK
      <3>2. issued' \subseteq Verifiers!JWT /\ UNCHANGED <<subject, accepted>>
        BY <2>1 DEF Verifiers!Issue
      <3> QED
        BY <3>1, <3>2
        DEF Verifiers!TypeOK, Verifiers!Acceptance, Verifiers!JWT, Verifiers!TypeOf
    <2>2. ASSUME NEW c \in Client, Verifiers!EarlierLogin(c)
          PROVE  Verifiers!TypeOK'
      <3>1. PICK s \in Subject : subject' = [subject EXCEPT ![c] = s]
        BY <2>2 DEF Verifiers!EarlierLogin
      <3>2. /\ subject' \in [Client -> Subject \cup {None}]
            /\ \A d \in Client : subject[d] # None => subject'[d] # None
        BY <2>a, <3>1, PartyAssumption
      <3>3. UNCHANGED <<issued, accepted>>
        BY <2>2 DEF Verifiers!EarlierLogin
      <3>4. \A a \in accepted : a.client \in Client
        BY DEF Verifiers!TypeOK, Verifiers!Acceptance
      <3> QED
        BY <3>2, <3>3, <3>4
        DEF Verifiers!TypeOK, Verifiers!Acceptance, Verifiers!JWT, Verifiers!TypeOf,
            Verifiers!Purpose
    <2>3. ASSUME NEW c \in Client, NEW j \in issued, NEW access \in AccessToken,
                 Verifiers!Login(c, j, access)
          PROVE  Verifiers!TypeOK'
      <3>1. c \in j.aud /\ j.nonce = c
        BY <2>3 DEF Verifiers!Login, Verifiers!VerifiesLogin,
                    Verifiers!VerifiesIDToken, Verifiers!NonceMatches
      <3>2. j.sub \in Subject /\ j.sub # None
        BY <2>a, <3>1, PartyAssumption DEF Verifiers!JWT, Verifiers!TypeOf
      <3>3. issued' = issued /\ subject' = [subject EXCEPT ![c] = j.sub]
        BY <2>3 DEF Verifiers!Login
      <3>4. /\ subject' \in [Client -> Subject \cup {None}]
            /\ \A d \in Client : subject[d] # None => subject'[d] # None
            /\ subject'[c] # None
        BY <2>a, <3>2, <3>3
      <3>5. Verifiers!Accept(c, "login", j, access)
        BY <2>3 DEF Verifiers!Login
      <3> QED
        BY <3>1, <3>3, <3>4, <3>5, AcceptTyped DEF Verifiers!Purpose
    <2>4. ASSUME NEW c \in Client, NEW j \in issued, NEW access \in AccessToken,
                 Verifiers!Refresh(c, j, access)
          PROVE  Verifiers!TypeOK'
      <3>1. /\ c \in j.aud /\ subject[c] # None /\ Same
            /\ Verifiers!Accept(c, "refresh", j, access)
        BY <2>4 DEF Verifiers!Refresh, Verifiers!VerifiesRefresh,
                    Verifiers!VerifiesIDToken
      <3> QED
        BY <2>a, <3>1, AcceptTyped DEF Verifiers!Purpose
    <2>5. ASSUME NEW c \in Client, NEW j \in issued,
                 Verifiers!Response(c, j) \/ Verifiers!Logout(c, j)
          PROVE  Verifiers!TypeOK'
      <3>1. PICK purpose \in {"response", "logout"} :
              Verifiers!Accept(c, purpose, j, None) /\ c \in j.aud /\ Same
        BY <2>5 DEF Verifiers!Response, Verifiers!Logout, Verifiers!VerifiesResponse,
                    Verifiers!ResponseAudience, Verifiers!VerifiesLogoutToken
      <3> QED
        BY <2>a, <3>1, AcceptTyped DEF Verifiers!Purpose
    <2>6. ASSUME NEW c \in Client, NEW j \in issued, Verifiers!UserInfo(c, j)
          PROVE  Verifiers!TypeOK'
      <3>1. /\ c \in j.aud /\ subject[c] # None /\ Same
            /\ Verifiers!Accept(c, "userinfo", j, None)
        BY <2>6 DEF Verifiers!UserInfo, Verifiers!VerifiesUserInfo
      <3> QED
        BY <2>a, <3>1, AcceptTyped DEF Verifiers!Purpose
    <2>7. CASE UNCHANGED Verifiers!vars
      BY <2>7 DEF Verifiers!TypeOK, Verifiers!vars, Verifiers!Acceptance,
                  Verifiers!JWT, Verifiers!TypeOf, Verifiers!Purpose
    <2> QED
      BY <2>1, <2>2, <2>3, <2>4, <2>5, <2>6, <2>7 DEF Verifiers!Next
  <1> QED
    BY <1>1, <1>2, PTL DEF Verifiers!Spec

-----------------------------------------------------------------------------
(* The two side by side.                                                   *)

(* A behaviour of the whole is one of either part, each seen by itself: what *)
(* is proved of the parts holds of the run that checks them together.        *)
THEOREM DocumentsAreBoth == DocumentsSpec => Spec /\ Verifiers!Spec
  <1>1. DocumentsInit => Init /\ Verifiers!Init
    <2>1. ASSUME ClaimsRest PROVE Init
      <3>1. idToken = [name |-> Absent, email |-> Absent,
                       email_verified |-> Absent, picture |-> Absent]
        BY <2>1 DEF ClaimsRest
      <3>2. idToken \in Claims
        BY <3>1 DEF Claims, Claim
      <3> QED
        BY <2>1, <3>2 DEF ClaimsRest, Init, Policy
    <2> QED
      BY <2>1 DEF DocumentsInit
  <1>2. [DocumentsNext]_<<vars, purposeVars, part>> => [Next]_vars
    BY DEF DocumentsNext
  <1>3. [DocumentsNext]_<<vars, purposeVars, part>> =>
          [Verifiers!Next]_(Verifiers!vars)
    BY DEF DocumentsNext, purposeVars, Verifiers!vars
  <1> QED
    BY <1>1, <1>2, <1>3, PTL DEF DocumentsSpec, Spec, Verifiers!Spec

(* Claims, policy, profile, JWTs and what was accepted keep their types.      *)
THEOREM DocumentsTypes == DocumentsSpec => []DocumentsTypeOK
  <1>1. ClaimsInv /\ Verifiers!TypeOK => DocumentsTypeOK
    BY DEF ClaimsInv, DocumentsTypeOK
  <1> QED
    BY <1>1, ClaimsInductive, PurposeTypes, DocumentsAreBoth, PTL

=============================================================================
