---------------------------- MODULE MCBrowser ----------------------------
(* What goes out to the browser and comes back from it: the row that the   *)
(* table keeps meanwhile (AttemptVault), the request (AuthorizationRequest) *)
(* and the response (Callback).  The three share no state, so a behaviour  *)
(* is one of one of them, and the other two stay as they are.              *)
EXTENDS AttemptVault

(* Three entropy reads: two good ones, and one in which nonce and verifier *)
(* repeat, so that the repeat check has something to refuse.               *)
CONSTANTS a1, a2, a3, s1, s2, s3, n1, n2, n3, v1, v2, c1, c2

MCTape ==
  [a \in {a1, a2, a3} |->
     CASE a = a1 -> [state |-> s1, nonce |-> n1, pkceVerifier |-> v1]
       [] a = a2 -> [state |-> s2, nonce |-> n2, pkceVerifier |-> v2]
       [] a = a3 -> [state |-> s3, nonce |-> n3, pkceVerifier |-> n3]]

CONSTANTS ACR, ClaimsRequest, Altered, None

(* Two requests of the browser's making: one that asks for nothing, and one *)
(* that asks for other scopes, prompt and ACR than most.                   *)
MCAltered ==
  {[scope |-> {"openid"}, prompt |-> {}, maxAge |-> FALSE, acr |-> None, claims |-> None],
   [scope |-> {"api", "offline_access"}, prompt |-> {"none"}, maxAge |-> FALSE,
    acr |-> CHOOSE a \in ACR : TRUE, claims |-> None]}

VARIABLES
  part,  \* which of the three runs
  policy, stage, options, sealed, pushed, url, processed, refresh,
  decoding, parameter, excess, claim, response

Request  == INSTANCE AuthorizationRequest WITH phase <- stage, context <- sealed
Returned == INSTANCE Callback WITH phase <- decoding

(* None is neither a request, on whatever way, nor what comes of one; and    *)
(* the browser's requests are requests.                                     *)
ASSUME RequestAssumption ==
  /\ None \notin Request!Options /\ None \notin Request!SealedContext
  /\ None \notin Request!Request /\ None \notin Request!URL
  /\ Altered \subseteq Request!Parameters
  /\ None \notin Request!SignIn /\ None \notin Request!Refreshed

requestVars ==
  <<policy, stage, options, sealed, pushed, url, processed, refresh>>
returnedVars == <<decoding, parameter, excess, claim, response>>

(* Where a part that does not run stays. *)
RequestRests ==
  /\ policy = CHOOSE p \in Request!Policy : TRUE
  /\ stage = "start" /\ options = None /\ sealed = None
  /\ pushed = None /\ url = None /\ processed = None /\ refresh = None
ReturnedRests ==
  /\ decoding = "arrived" /\ parameter = Returned!Absent /\ excess = FALSE
  /\ claim = Returned!Absent /\ response = Returned!Absent

BrowserInit ==
  \/ part = "vault" /\ Init /\ RequestRests /\ ReturnedRests
  \/ part = "request" /\ Init /\ Request!Init /\ ReturnedRests
  \/ part = "response" /\ Init /\ RequestRests /\ Returned!Init

BrowserNext ==
  \/ part = "vault" /\ Next /\ UNCHANGED <<requestVars, returnedVars, part>>
  \/ part = "request" /\ Request!Next /\ UNCHANGED <<vars, returnedVars, part>>
  \/ part = "response" /\ Returned!Next /\ UNCHANGED <<vars, requestVars, part>>

BrowserSpec ==
  BrowserInit /\ [][BrowserNext]_<<vars, requestVars, returnedVars, part>>

(* The three parts are well typed. *)
BrowserTypeOK == TypeOK /\ Request!TypeOK /\ Returned!TypeOK

(* The properties of the two instances, under names of this module. *)
AskedIsHonoured == Request!AskedIsHonoured
ResponseIsUnambiguous == Returned!ResponseIsUnambiguous

=============================================================================
