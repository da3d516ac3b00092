--------------------------- MODULE IdentityClaims ---------------------------
(***************************************************************************)
(* From two documents to one profile: the claims of the verified ID token, *)
(* overridden by those of UserInfo where the login asks for it             *)
(* (exchange.go:91-105), and what of them is admitted                      *)
(* (identity_claims.go:33-113).                                            *)
(*                                                                         *)
(* A claim is absent, malformed, or a value.  Malformed stands for every   *)
(* value the code refuses: of a wrong JSON type, empty or too long, with   *)
(* control characters, or a picture that is not a safe canonical URL.      *)
(***************************************************************************)

CONSTANTS
  Name, Email, Picture,   \* well-formed values
  Absent, Malformed

ASSUME ValueAssumption ==
  /\ Absent # Malformed
  /\ {Absent, Malformed} \cap (Name \cup Email \cup Picture \cup BOOLEAN) = {}

VARIABLES
  idToken,    \* the claims of the verified ID token
  userInfo,   \* what the UserInfo endpoint would answer
  policy,     \* the policy of the attempt's sealed context
  claims,     \* the map that is validated, as it is now
  stage,      \* "fetch", "validate", "admitted" or "refused"
  profile     \* the profile in the returned identity

vars == <<idToken, userInfo, policy, claims, stage, profile>>

Claim(S) == S \cup {Absent, Malformed}
Claims == [name : Claim(Name), email : Claim(Email),
           email_verified : Claim(BOOLEAN), picture : Claim(Picture)]
Policy == [useUserInfo : BOOLEAN, requireName : BOOLEAN, requireEmail : BOOLEAN]
Profile == [name : Name \cup {Absent}, email : Email \cup {Absent},
            picture : Picture \cup {Absent}]

Nobody == [name |-> Absent, email |-> Absent, picture |-> Absent]

TypeOK ==
  /\ idToken \in Claims /\ userInfo \in Claims /\ claims \in Claims
  /\ policy \in Policy
  /\ stage \in {"fetch", "validate", "admitted", "refused"}
  /\ profile \in Profile

Init ==
  /\ idToken \in Claims
  /\ policy \in Policy
  /\ userInfo \in Claims
  /\ claims = idToken
  /\ stage = IF policy.useUserInfo THEN "fetch" ELSE "validate"
  /\ profile = Nobody

-----------------------------------------------------------------------------
(* Fault: UserInfo only fills the gaps of the ID token. *)
MergedIntoGaps(base, info) ==
  [n \in DOMAIN base |-> IF base[n] = Absent THEN info[n] ELSE base[n]]

(* Every claim of the four that UserInfo has, it overrides. *)
Merged(base, info) ==
  [n \in DOMAIN base |-> IF info[n] # Absent THEN info[n] ELSE base[n]]

(* Fault: a picture is taken as it is. *)
WellFormedButPicture(c) ==
  \A n \in {"name", "email", "email_verified"} : c[n] # Malformed

WellFormed(c) == \A n \in DOMAIN c : c[n] # Malformed

(* Fault: an email counts as verified unless a document says otherwise. *)
AcceptedEmailByDefault(c) == IF c.email_verified # FALSE THEN c.email ELSE Absent

(* An email that is not verified is dropped, not refused. *)
AcceptedEmail(c) == IF c.email_verified = TRUE THEN c.email ELSE Absent

Accepts(c, p) ==
  /\ WellFormed(c)
  /\ p.requireName => c.name # Absent
  /\ p.requireEmail => AcceptedEmail(c) # Absent

(* UserInfo has answered, and for the subject of the ID token. *)
Merge ==
  /\ stage = "fetch"
  /\ claims' = Merged(claims, userInfo)
  /\ stage' = "validate"
  /\ UNCHANGED <<idToken, userInfo, policy, profile>>

(* fetchUserInfo fails, and with it the login. *)
FetchFails ==
  /\ stage = "fetch"
  /\ stage' = "refused"
  /\ UNCHANGED <<idToken, userInfo, policy, claims, profile>>

(* validateIdentityClaimsWithPolicy *)
Validate ==
  /\ stage = "validate"
  /\ \/ /\ Accepts(claims, policy)
        /\ stage' = "admitted"
        /\ profile' = [name |-> claims.name, email |-> AcceptedEmail(claims),
                       picture |-> claims.picture]
     \/ /\ ~Accepts(claims, policy)
        /\ stage' = "refused"
        /\ UNCHANGED profile
  /\ UNCHANGED <<idToken, userInfo, policy, claims>>

Next == Merge \/ FetchFails \/ Validate

Spec == Init /\ [][Next]_vars

-----------------------------------------------------------------------------
(* The documents this login has seen. *)
Seen == {idToken} \cup (IF policy.useUserInfo THEN {userInfo} ELSE {})

(* One document both names the email and says that it is verified. *)
Vouched(email) ==
  \E d \in Seen : d.email = email /\ d.email_verified = TRUE

(* UserInfo speaks of an email exactly if it speaks of its verification. *)
Paired == userInfo.email = Absent <=> userInfo.email_verified = Absent

(* Where UserInfo speaks of an email and of its verification together or    *)
(* not at all, the email of an identity is one that a single document has   *)
(* called verified (identity_claims.go:71-92, exchange.go:96-100).          *)
PairedEmailIsVouched ==
  (Paired \/ ~policy.useUserInfo) =>
    (profile.email # Absent => Vouched(profile.email))

(* UserInfo has the last word: what it contradicts is in no profile, and an *)
(* email it calls unverified is withdrawn (exchange.go:96-100).            *)
UserInfoHasTheLastWord ==
  (stage = "admitted" /\ policy.useUserInfo) =>
    /\ \A n \in {"name", "email", "picture"} :
         userInfo[n] # Absent => profile[n] \in {userInfo[n], Absent}
    /\ userInfo.email_verified = FALSE => profile.email = Absent

(* docs/implementation-spec.md:24-25: "Name, verified email, safe picture,  *)
(* and UserInfo are consumer-configurable": an email in an identity is a    *)
(* verified email.  Some document has called an email verified, and did not *)
(* name another one.                                                       *)
EmailIsVerified ==
  profile.email # Absent =>
    \E d \in Seen : d.email_verified = TRUE /\ d.email \in {profile.email, Absent}

=============================================================================
