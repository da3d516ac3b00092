---------------------------- MODULE MCDocuments ----------------------------
(* What the JWTs of a provider are taken for: which verifier accepts which *)
(* (TokenPurpose), and what the claims of an ID token and of UserInfo come *)
(* to (IdentityClaims).  The two share no state, so a behaviour is one of  *)
(* either, and the other stays as it is.                                   *)
EXTENDS IdentityClaims, TLC

CONSTANTS Client, TrustedBy, Subject, AccessToken, None

ASSUME PartyAssumption == None \notin Client \cup Subject

(* The relying parties trust each other as an audience. *)
MutualTrust == [c \in Client |-> Client \ {c}]

VARIABLES
  part,  \* which of the two runs
  issued, subject, accepted

purposeVars == <<issued, subject, accepted>>

Verifiers == INSTANCE TokenPurpose

ClaimsRest ==
  /\ policy = [useUserInfo |-> FALSE, requireName |-> FALSE, requireEmail |-> FALSE]
  /\ idToken = [n \in {"name", "email", "email_verified", "picture"} |-> Absent]
  /\ userInfo = idToken /\ claims = idToken
  /\ stage = "validate" /\ profile = Nobody

DocumentsInit ==
  /\ part \in {"claims", "verifiers"}
  /\ IF part = "claims" THEN Init ELSE ClaimsRest
  /\ Verifiers!Init

DocumentsNext ==
  \/ part = "claims" /\ Next /\ UNCHANGED <<purposeVars, part>>
  \/ part = "verifiers" /\ Verifiers!Next /\ UNCHANGED <<vars, part>>

DocumentsSpec ==
  DocumentsInit /\ [][DocumentsNext]_<<vars, purposeVars, part>>

(* Both parts are well typed. *)
DocumentsTypeOK == TypeOK /\ Verifiers!TypeOK

(* The properties of TokenPurpose, under names of this module. *)
OneRelyingParty == Verifiers!OneRelyingParty
NoCrossUse == Verifiers!NoCrossUse

Symmetry ==
  Permutations(Client) \cup Permutations(Subject) \cup Permutations(AccessToken)

=============================================================================
