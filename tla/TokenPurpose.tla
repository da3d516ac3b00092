---------------------------- MODULE TokenPurpose ----------------------------
(***************************************************************************)
(* One provider signs, with one key, JWTs for five purposes and for many   *)
(* relying parties; the library has a verifier for each purpose but the    *)
(* last: the ID token of a login and of a refresh (exchange.go:72-174,     *)
(* api.go:302-311), the authorization response (jose.go:94-189), the       *)
(* logout token (logout.go:91-127), the UserInfo response                  *)
(* (exchange.go:212-254) and the JWT access token.  Any JWT may turn up at *)
(* any verifier of any client: an endpoint answers with the wrong one, or  *)
(* a client passes on what it has got.                                     *)
(*                                                                         *)
(* Left out: signatures by another key, algorithms, times (Freshness,      *)
(* Logout), decryption, which yields the same JWT.                         *)
(***************************************************************************)
CONSTANTS
  Client,       \* relying parties of one provider, named by client ID
  TrustedBy,    \* TrustedBy[c]: the other audiences c trusts
  Subject,
  AccessToken,  \* access tokens
  None

VARIABLES
  issued,    \* the JWTs of the provider
  subject,   \* subject[c]: who is logged in at client c
  accepted   \* history: what was accepted, by whom, for what, with what

vars == <<issued, subject, accepted>>

Purpose == {"login", "refresh", "response", "logout", "userinfo"}

(* The kinds of JWT, and the explicit type the header of each has.  The     *)
(* provider marks ID tokens and UserInfo responses in no special way.       *)
TypeOf ==
  [idToken |-> "JWT", response |-> "oauth-authz-resp+jwt",
   logout |-> "logout+jwt", userinfo |-> "JWT", access |-> "at+jwt"]

(* What a JWT may say, by its kind.  The nonce names the client that chose  *)
(* it, atHash the access token it goes with, azp the authorized party.      *)
JWT ==
  {j \in [kind : DOMAIN TypeOf, aud : SUBSET Client, azp : Client \cup {None},
          sub : Subject \cup {None}, nonce : Client \cup {None},
          exp : BOOLEAN, atHash : AccessToken \cup {None}] :
     /\ j.aud # {}
     /\ j.kind \in {"idToken", "response", "access"} => j.exp
     /\ j.kind \in {"idToken", "userinfo", "access"} => j.sub # None
     /\ j.kind = "response" => j.sub = None
     /\ j.kind # "idToken" => j.nonce = None /\ j.atHash = None /\ j.azp = None
     /\ j.nonce # None => j.nonce \in j.aud /\ j.azp \in {None, j.nonce}}

Acceptance ==
  [client : Client, purpose : Purpose, jwt : JWT, access : AccessToken \cup {None}]

TypeOK ==
  /\ issued \subseteq JWT
  /\ subject \in [Client -> Subject \cup {None}]
  /\ accepted \subseteq Acceptance
  /\ \A a \in accepted :
       /\ a.jwt \in issued /\ a.client \in a.jwt.aud
       /\ a.purpose \in {"response", "logout"} \/ subject[a.client] # None

Init ==
  /\ issued = {}
  /\ subject = [c \in Client |-> None]
  /\ accepted = {}

-----------------------------------------------------------------------------
(* The verifiers.                                                          *)

(* Fault: the authorized party need not be this client. *)
NamesAParty(c, j) == j.aud # {c} => j.azp # None

AuthorizedParty(c, j) ==
  /\ j.aud # {c} => j.azp # None
  /\ j.azp \in {None, c}

(* verifyIDToken and validateIDTokenBinding. *)
VerifiesIDToken(c, j) ==
  /\ c \in j.aud
  /\ j.exp
  /\ j.aud \subseteq {c} \cup TrustedBy[c]
  /\ AuthorizedParty(c, j)

(* Fault: a nonce is compared if there is one. *)
NonceIfPresent(c, j) == j.nonce \in {None, c}

NonceMatches(c, j) == j.nonce = c

VerifiesLogin(c, j, access) ==
  /\ VerifiesIDToken(c, j)
  /\ NonceMatches(c, j)
  /\ j.atHash \in {None, access}

(* Refresh compares the subject, and no access-token hash. *)
VerifiesRefresh(c, j) ==
  /\ VerifiesIDToken(c, j)
  /\ j.sub = subject[c]

ResponseAudience(c, j) == j.aud = {c}

VerifiesResponse(c, j) ==
  /\ TypeOf[j.kind] = "oauth-authz-resp+jwt"
  /\ ResponseAudience(c, j)
  /\ j.exp

IsLogoutToken(j) == TypeOf[j.kind] = "logout+jwt"

VerifiesLogoutToken(c, j) ==
  /\ IsLogoutToken(j)
  /\ c \in j.aud
  /\ j.nonce = None

(* Fault: the audience does not matter, as the subject is that of the login. *)
SubjectMatches(c, j) == j.sub = subject[c]

(* No type, no expiry, any audience besides this client. *)
VerifiesUserInfo(c, j) == c \in j.aud /\ j.sub = subject[c]

-----------------------------------------------------------------------------
(* External: the provider issues a JWT. *)
Issue ==
  /\ issued = {}
  /\ \E j \in JWT : issued' = {j}
  /\ UNCHANGED <<subject, accepted>>

Accept(c, purpose, j, access) ==
  accepted' = accepted \cup
    {[client |-> c, purpose |-> purpose, jwt |-> j, access |-> access]}

(* CompleteTokens: the access token comes in the same answer. *)
Login(c, j, access) ==
  /\ VerifiesLogin(c, j, access)
  /\ subject' = [subject EXCEPT ![c] = j.sub]
  /\ Accept(c, "login", j, access)
  /\ UNCHANGED issued

(* External: a login with some other ID token, long ago. *)
EarlierLogin(c) ==
  /\ subject[c] = None
  /\ \E s \in Subject : subject' = [subject EXCEPT ![c] = s]
  /\ UNCHANGED <<issued, accepted>>

Refresh(c, j, access) ==
  /\ subject[c] # None
  /\ VerifiesRefresh(c, j)
  /\ Accept(c, "refresh", j, access)
  /\ UNCHANGED <<issued, subject>>

Response(c, j) ==
  /\ VerifiesResponse(c, j)
  /\ Accept(c, "response", j, None)
  /\ UNCHANGED <<issued, subject>>

Logout(c, j) ==
  /\ VerifiesLogoutToken(c, j)
  /\ Accept(c, "logout", j, None)
  /\ UNCHANGED <<issued, subject>>

UserInfo(c, j) ==
  /\ subject[c] # None
  /\ VerifiesUserInfo(c, j)
  /\ Accept(c, "userinfo", j, None)
  /\ UNCHANGED <<issued, subject>>

Next ==
  \/ Issue
  \/ \E c \in Client : EarlierLogin(c)
  \/ \E c \in Client, j \in issued :
       \/ \E access \in AccessToken : Login(c, j, access) \/ Refresh(c, j, access)
       \/ Response(c, j) \/ Logout(c, j) \/ UserInfo(c, j)

Spec == Init /\ [][Next]_vars

-----------------------------------------------------------------------------
(* An ID token or an authorization response is for one relying party: two   *)
(* clients that trust each other as an audience never accept the same one,  *)
(* be it at a login or a refresh (exchange.go:135-157, jose.go:151).         *)
OneRelyingParty ==
  \A a, b \in accepted :
    (/\ a.jwt = b.jwt
     /\ {a.purpose, b.purpose} \subseteq {"login", "refresh", "response"})
      => a.client = b.client

(* Where anyone may deliver a JWT, and where a login starts, no JWT of      *)
(* another purpose passes: the type tells the first, the nonce the second   *)
(* (jose.go:109, logout.go:96, exchange.go:79-84).                          *)
NoCrossUse ==
  \A a \in accepted :
    a.purpose \in {"login", "response", "logout"} =>
      a.jwt.kind = (IF a.purpose = "login" THEN "idToken" ELSE a.purpose)

(* docs/implementation-spec.md:19-22: "ID-token validation: exact issuer,    *)
(* ... and explicit JWT purpose": also where there is no nonce to compare.   *)
RefreshedIsIDToken ==
  \A a \in accepted : a.purpose = "refresh" => a.jwt.kind = "idToken"

(* docs/architecture.md:25-26: "Refresh uses the same ... ID-token          *)
(* validation rules": an access token that is accepted with an ID token is  *)
(* the one that the ID token has the hash of.                               *)
AccessTokenIsBound ==
  \A a \in accepted :
    a.purpose \in {"login", "refresh"} => a.jwt.atHash \in {None, a.access}

=============================================================================
