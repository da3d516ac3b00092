------------------------------ MODULE Callback ------------------------------
(***************************************************************************)
(* The two decoders of an authorization response and their consumer:       *)
(* ParseCallback reads a query or a form (callback.go:62-168), the JWT     *)
(* response has the same parameters as claims (jose.go:113-189), and       *)
(* complete() checks the shape of what either returns (api.go:200-217,     *)
(* 247-254, exchange.go:42).                                               *)
(*                                                                         *)
(* A parameter is absent, empty, good, or bad: too long for the decoder or *)
(* with characters it does not take; a code may be long, which the decoder *)
(* takes and the exchange does not.  Left out: the bytes, the carrier      *)
(* (LoginFlow), the signature and the window (Freshness).                  *)
(***************************************************************************)
Name == {"code", "state", "iss", "response", "error", "error_description",
         "error_uri"}

ErrorDetail == {"error_description", "error_uri"}

Value == {"absent", "empty", "good", "long", "bad"}

Parameters ==
  {v \in [Name -> Value] : \A n \in Name \ {"code"} : v[n] # "long"}

Claims == {v \in Parameters : v["response"] = "absent"}

VARIABLES
  phase,      \* "arrived", "JWT", "parsed", "refused", "code", "error"
  parameter,  \* the parameters of the callback
  excess,     \* whether it has an unknown or a repeated one
  claim,      \* the claims of the JWT response
  response    \* the AuthorizationResponse: what it has, and what is good

vars == <<phase, parameter, excess, claim, response>>

Absent == [n \in Name |-> "absent"]

(* The parser's tests: of presence (values[n]), and of contents (Get). *)
Has(v, n) == v[n] # "absent"
Blank(v, n) == v[n] \in {"absent", "empty"}

TypeOK ==
  /\ phase \in {"arrived", "JWT", "parsed", "refused", "code", "error"}
  /\ parameter \in Parameters
  /\ excess \in BOOLEAN
  /\ claim \in Claims
  /\ response \in Parameters
  /\ \A n \in Name : response[n] \notin {"empty", "bad"}

Init ==
  /\ phase = "arrived"
  /\ parameter \in Parameters
  /\ excess \in BOOLEAN
  /\ claim = Absent /\ response = Absent

-----------------------------------------------------------------------------
(* What the library decides.                                               *)

(* Fault: a JWT response may come with a state, to find the attempt by. *)
CombinesBut(v) ==
  Has(v, "response") /\ \E n \in Name \ {"response", "state"} : Has(v, n)

Combines(v) == Has(v, "response") /\ \E n \in Name \ {"response"} : Has(v, n)

(* Fault: an error counts only if it says something. *)
ErrorShapeIfAny(v) ==
  /\ ~Blank(v, "error") => ~Has(v, "code") /\ ~Blank(v, "state")
  /\ ~Has(v, "error") => \A n \in ErrorDetail : ~Has(v, n)

(* The shape of an error response, in both decoders. *)
ErrorShape(v) ==
  /\ Has(v, "error") =>
       ~Blank(v, "error") /\ ~Has(v, "code") /\ ~Blank(v, "state")
  /\ ~Has(v, "error") => \A n \in ErrorDetail : ~Has(v, n)

SuccessShape(v) ==
  ~Has(v, "error") => ~Blank(v, "code") /\ ~Blank(v, "state")

(* Fault: only what goes to the provider or into a lookup is looked at. *)
CleanTokens(v) == \A n \in Name \ ErrorDetail : v[n] # "bad"

Clean(v) == \A n \in Name : v[n] # "bad"

NotEmpty(v, names) == \A n \in names : v[n] # "empty"

(* ParseCallback: either a JWT alone, or the parameters themselves. *)
Parses(v, more) ==
  /\ ~more
  /\ Clean(v)
  /\ NotEmpty(v, {"iss"} \cup ErrorDetail)
  /\ ~Combines(v)
  /\ IF Has(v, "response") THEN ~Blank(v, "response")
                           ELSE ErrorShape(v) /\ SuccessShape(v)

(* verifyAuthorizationResponseJWT from the claims on: no unknown claim is   *)
(* refused, and the issuer has to be the right one.                         *)
Opens(c) ==
  /\ Clean(c)
  /\ c["iss"] = "good"
  /\ NotEmpty(c, ErrorDetail)
  /\ ErrorShape(c) /\ SuccessShape(c)

(* A response takes over what is not blank. *)
Response(v) == [n \in Name |-> IF Blank(v, n) THEN "absent" ELSE v[n]]

-----------------------------------------------------------------------------
ParseCallback ==
  /\ phase = "arrived"
  /\ IF Parses(parameter, excess)
     THEN /\ response' = Response(parameter)
          /\ phase' = IF Has(parameter, "response") THEN "JWT" ELSE "parsed"
          /\ claim' \in IF Has(parameter, "response") THEN Claims ELSE {Absent}
     ELSE phase' = "refused" /\ UNCHANGED <<claim, response>>
  /\ UNCHANGED <<parameter, excess>>

(* complete() lets a JWT come only alone, and replaces the response by it. *)
OpenJWT ==
  /\ phase = "JWT"
  /\ IF Opens(claim) /\ \A n \in Name \ {"response"} : response[n] = "absent"
     THEN phase' = "parsed" /\ response' = Response(claim)
     ELSE phase' = "refused" /\ UNCHANGED response
  /\ UNCHANGED <<parameter, excess, claim>>

(* complete() on the parsed response; the attempt and the issuer aside. *)
Complete ==
  /\ phase = "parsed"
  /\ phase' = IF response["error"] = "good" /\ response["code"] = "absent"
              THEN "error"
              ELSE IF response["error"] = "absent" /\ response["code"] = "good"
                   THEN "code" ELSE "refused"
  /\ UNCHANGED <<parameter, excess, claim, response>>

Next == ParseCallback \/ OpenJWT \/ Complete

Spec == Init /\ [][Next]_vars

-----------------------------------------------------------------------------
(* The grammar of an authorization response, stated on its own (RFC 6749    *)
(* 4.1.2, RFC 9207): a success is a code and a state, an error is an error  *)
(* and a state, and details go with an error only.                          *)
IsSuccess(v) ==
  /\ v["code"] \in {"good", "long"} /\ v["state"] = "good"
  /\ \A n \in {"error"} \cup ErrorDetail : v[n] = "absent"

IsError(v) ==
  /\ v["error"] = "good" /\ v["state"] = "good" /\ v["code"] = "absent"
  /\ \A n \in ErrorDetail : v[n] \in {"absent", "good"}

IsDirect(v) ==
  /\ IsSuccess(v) \/ IsError(v)
  /\ v["iss"] \in {"absent", "good"} /\ v["response"] = "absent"

IsJWT(v) == v["response"] = "good" /\ \A n \in Name \ {"response"} : v[n] = "absent"

(* The order of ParseCallback's checks lets through exactly the grammar     *)
(* (callback.go:101-168).                                                   *)
ParsedIsGrammar ==
  (phase # "arrived" /\ claim = Absent) =>
    (response # Absent <=> ~excess /\ (IsDirect(parameter) \/ IsJWT(parameter)))

(* Both decoders have one meaning: of the claims of a JWT response, what the *)
(* grammar of a callback takes is opened, and nothing else, but that the     *)
(* issuer has to be there (callback.go:146-168, jose.go:155-188).            *)
DecodersAgree ==
  (claim # Absent /\ phase # "JWT") =>
    (response["response"] = "absent" <=> IsDirect(claim) /\ claim["iss"] = "good")

(* Nothing that was decoded fails the shape checks of complete(): it          *)
(* ends as a code for the exchange or as the provider's error, or the code   *)
(* is too long (api.go:200-205, 247-254, exchange.go:42).                    *)
DecodedIsConsumed ==
  phase = "refused" =>
    response = Absent \/ response["response"] # "absent" \/ response["code"] = "long"

(* A response means one thing: exactly the grammar is decoded, by either     *)
(* decoder, and complete() has no other opinion (callback.go:101-168,        *)
(* jose.go:155-188, api.go:200-254).                                        *)
ResponseIsUnambiguous == ParsedIsGrammar /\ DecodersAgree /\ DecodedIsConsumed

=============================================================================
