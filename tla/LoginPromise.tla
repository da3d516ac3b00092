--------------------------- MODULE LoginPromise ---------------------------
(***************************************************************************)
(* What an application that uses the library is promised, with nothing of  *)
(* how: an identity is returned only for a login the application asked     *)
(* for, of a subject who signed in for that login, at the issuer it was    *)
(* asked of, in one of the ways (ACR) it accepts.  LoginFlow implements    *)
(* it.                                                                     *)
(***************************************************************************)
CONSTANTS Attempt, Issuer, Subject, Acr

VARIABLES
  asked,       \* the logins asked for, with their issuer and acceptable ACRs
  signedIn,    \* who signed in for which login, where and how
  loggedIn     \* the identities returned to the application

vars == <<asked, signedIn, loggedIn>>

Init ==
  /\ asked = <<>>
  /\ signedIn = {}
  /\ loggedIn = {}

Ask(a, issuer, acrs) ==
  /\ a \notin DOMAIN asked
  /\ asked' = [b \in DOMAIN asked \cup {a} |->
                 IF b = a THEN [issuer |-> issuer, acrs |-> acrs] ELSE asked[b]]
  /\ UNCHANGED <<signedIn, loggedIn>>

SignIn(a, issuer, subject, acr) ==
  /\ a \in DOMAIN asked
  /\ signedIn' = signedIn \cup {[attempt |-> a, issuer |-> issuer,
                                 subject |-> subject, acr |-> acr]}
  /\ UNCHANGED <<asked, loggedIn>>

LogIn(x) ==
  /\ x.issuer = asked[x.attempt].issuer
  /\ asked[x.attempt].acrs = {} \/ x.acr \in asked[x.attempt].acrs
  /\ loggedIn' = loggedIn \cup {[attempt |-> x.attempt, issuer |-> x.issuer,
                                 subject |-> x.subject]}
  /\ UNCHANGED <<asked, signedIn>>

Next ==
  \/ \E a \in Attempt, issuer \in Issuer, acrs \in SUBSET Acr :
       Ask(a, issuer, acrs)
  \/ \E a \in Attempt, issuer \in Issuer, subject \in Subject, acr \in Acr :
       SignIn(a, issuer, subject, acr)
  \/ \E x \in signedIn : LogIn(x)

Spec == Init /\ [][Next]_vars

=============================================================================
