---------------------------- MODULE MCLoginFlow ----------------------------
(* Instances of LoginFlow: two attempts, and small worlds of clients and    *)
(* issuers in which the properties are put to the test.                    *)
EXTENDS LoginFlow, TLC

CONSTANTS a1, a2, i1, i2, c1, c2, c3, acr1, acr2, k1, k2, x1, x2, u1, u2

MCTape ==
  [a \in Attempt |->
     IF a = a1 THEN [state |-> "s1", nonce |-> "n1", pkceVerifier |-> "v1"]
               ELSE [state |-> "s2", nonce |-> "n2", pkceVerifier |-> "v2"]]
MCSecret == {"s1", "n1", "v1", "s2", "n2", "v2"}

Basic(issuer) ==
  [issuer |-> issuer, clientID |-> "rp", redirectURL |-> "/callback",
   requireResponseIssuer |-> FALSE, useUserInfo |-> FALSE,
   enableJARM |-> TRUE, enablePAR |-> FALSE,
   userInfoEndpoint |-> TRUE, parEndpoint |-> TRUE, requirePAR |-> FALSE,
   responseModes |-> ResponseMode, acrValues |-> {}]

(* A client that wants the response issuer and one that does not, at one    *)
(* provider; somewhere there is another provider.                           *)
OneProvider ==
  [c \in Client |-> [Basic(i1) EXCEPT !.requireResponseIssuer = c = c1]]

(* c2 is c1 after a change of its configuration and of its provider's, which *)
(* has come to require pushed requests; c3 is of another issuer.             *)
Reconfigured ==
  [c \in Client |->
     CASE c = c1 -> [Basic(i1) EXCEPT !.useUserInfo = TRUE, !.acrValues = {acr1}]
       [] c = c2 -> [Basic(i1) EXCEPT !.requireResponseIssuer = TRUE,
                                      !.enableJARM = FALSE, !.requirePAR = TRUE,
                                      !.userInfoEndpoint = FALSE]
       [] c = c3 -> [Basic(i2) EXCEPT !.clientID = "rp2"]]

(* A provider without a UserInfo endpoint. *)
NoUserInfo == [c \in Client |-> [Basic(i1) EXCEPT !.userInfoEndpoint = FALSE]]

Plain == [responseMode |-> "query", acrValues |-> {}, useUserInfo |-> FALSE,
          usePAR |-> FALSE]
FaithfulOffers ==
  {Plain, [Plain EXCEPT !.responseMode = "form_post.jwt"],
          [Plain EXCEPT !.usePAR = TRUE, !.useUserInfo = TRUE]}
ScrambledOffers ==
  {[Plain EXCEPT !.responseMode = "form_post"],
   [Plain EXCEPT !.acrValues = {acr1}, !.useUserInfo = TRUE,
                 !.responseMode = "query.jwt"]}
UserInfoOffers == {[Plain EXCEPT !.useUserInfo = TRUE]}

=============================================================================
