----------------------------- MODULE Freshness -----------------------------
(***************************************************************************)
(* The clocks of one login.  complete() reads Config.Clock before it       *)
(* fetches keys for a JWT response (api.go:208) and again before it        *)
(* redeems the code (api.go:256); what it read then signs the requests,    *)
(* decides about max_age, and is up to five network stops old when the     *)
(* identity is returned: the code exchange, its retry, the keys of the ID  *)
(* token, UserInfo, and the keys of a signed UserInfo (exchange.go:88, 92, *)
(* 124, 158-166, 197, 228; endpoint_client.go:108-118; jose.go:151).       *)
(*                                                                         *)
(* "time" is the provider's clock; Config.Clock differs from it by a fixed *)
(* offset.  The machine's own clock differs by another one: the library    *)
(* that verifies ID tokens is not given Config.Clock (provider.go:290).    *)
(* An application may complete a response again: a reload, or a retry      *)
(* after a failure.  Left to LoginFlow: who the login is of.               *)
(***************************************************************************)
EXTENDS Integers

CONSTANTS
  MaxAge,             \* max_age of the login
  Tolerance,          \* one minute
  Window,             \* ten minutes
  AssertionLifetime,  \* five minutes
  Timeout,            \* one network stop: ten seconds
  Drift,              \* either clock is off by no more than this
  Lifetime,           \* how long a JWT response may be valid
  TokenLifetime,      \* how long an ID token may be valid when it arrives
  Horizon,            \* bound: the last instant of the model
  None

ASSUME FreshnessAssumption ==
  /\ MaxAge \in Nat /\ Tolerance \in Nat /\ Window \in Nat
  /\ AssertionLifetime \in Nat /\ Timeout \in Nat
  /\ Drift \in Nat /\ Drift <= Tolerance
  /\ Lifetime \subseteq Nat /\ TokenLifetime \subseteq Nat /\ Horizon \in Nat
  /\ 2 * Timeout < AssertionLifetime
  /\ None \notin Int

VARIABLES
  time,      \* the provider's clock
  offset,    \* what Config.Clock is ahead of it
  wall,      \* what the machine's own clock is ahead of it
  auth,      \* auth_time: when the user signed in at the provider
  response,  \* the JWT response: its iat and exp
  redeemed,  \* whether the provider has executed the code exchange
  first,     \* by Config.Clock, when the response was first accepted
  call       \* the completion that is under way

vars == <<time, offset, wall, auth, response, redeemed, first, call>>

Instant == 0 .. Horizon
Reading == -Drift .. Horizon + Drift

Response == [iat : Instant, exp : Nat]

Idle == [phase |-> "idle", started |-> 0, now |-> 0, deadline |-> 0, expiry |-> 0]

Phase == {"keys", "token", "retry", "verify", "userinfo", "userinfokeys",
          "admitted", "stale"}

(* "expiry" is the ID token's, once it has arrived. *)
Call == [phase : Phase, started : Reading, now : Reading, deadline : Nat, expiry : Nat]

AfterTokens == {"verify", "userinfo", "userinfokeys", "admitted", "stale"}

TypeOK ==
  /\ time \in Instant
  /\ offset \in -Drift .. Drift
  /\ wall \in -Drift .. Drift
  /\ auth \in Instant \cup {None}
  /\ response \in Response \cup {None}
  /\ redeemed \in BOOLEAN
  /\ first \in Reading \cup {None}
  /\ call \in Call \cup {Idle}
  /\ response # None => auth # None
  /\ call.phase \notin {"idle", "keys"} => first # None
  /\ call.phase \in AfterTokens => redeemed
  /\ call.phase # "idle" => call.started <= call.now /\ call.now <= time + offset

Init ==
  /\ time = 0
  /\ offset \in -Drift .. Drift
  /\ wall \in -Drift .. Drift
  /\ auth = None /\ response = None
  /\ redeemed = FALSE /\ first = None
  /\ call = Idle

-----------------------------------------------------------------------------
(* What the library computes.                                              *)

Clock == time + offset

(* Fault: no upper bound on the expiry of a response. *)
ResponseUnexpired(now) == now < response.exp /\ response.iat <= now + Tolerance

(* There is no lower bound on iat. *)
ResponseInWindow(now) ==
  /\ now < response.exp /\ response.exp <= now + Window
  /\ response.iat <= now + Tolerance

(* Fault: the clock is read once for the whole completion. *)
ReadOnce == call.started

(* Fault: the tolerance is added to the clock instead of to the checks. *)
ReadAhead == Clock + Tolerance

(* complete() reads the clock again before the code exchange. *)
ReadAgain == Clock

(* Fault: no tolerance for an authentication that is too old. *)
StrictAge(now) == auth <= now + Tolerance /\ now <= auth + MaxAge

AcceptableAge(now) ==
  auth <= now + Tolerance /\ now <= auth + MaxAge + Tolerance

(* Fault: an assertion lives as long as one request may take. *)
ExpiresWithRequest(now) == now + Timeout

AssertionExpires(now) == now + AssertionLifetime

(* Fault: the verifier is built to skip the expiry. *)
TokenWhenever(expiry) == TRUE

(* The verifier is built without Config.Clock: it checks the expiry against  *)
(* the machine's clock, before it fetches keys.                             *)
TokenUnexpired(expiry) == time + wall <= expiry

-----------------------------------------------------------------------------
(* External: the provider, the user and the clock.                         *)

(* The provider need not ask again when max_age says so. *)
SignIn ==
  /\ response = None
  /\ auth' = time
  /\ UNCHANGED <<time, offset, wall, response, redeemed, first, call>>

Respond ==
  /\ auth # None /\ response = None
  /\ \E l \in Lifetime : response' = [iat |-> time, exp |-> time + l]
  /\ UNCHANGED <<time, offset, wall, auth, redeemed, first, call>>

(* A call does not stay at one network stop for longer than Timeout. *)
Tick ==
  /\ time < Horizon
  /\ call.phase # "idle" => time < call.deadline
  /\ time' = time + 1
  /\ UNCHANGED <<offset, wall, auth, response, redeemed, first, call>>

-----------------------------------------------------------------------------
(* A completion.                                                           *)

Enter(phase) ==
  call' = [call EXCEPT !.phase = phase, !.deadline = time + Timeout]

Complete ==
  /\ response # None
  /\ call.phase = "idle"
  /\ call' = [phase |-> "keys", started |-> Clock, now |-> Clock,
              deadline |-> time + Timeout, expiry |-> 0]
  /\ UNCHANGED <<time, offset, wall, auth, response, redeemed, first>>

(* The response is checked against the time read before the keys came. *)
KeysArrive ==
  /\ call.phase = "keys"
  /\ IF ResponseInWindow(call.started)
     THEN /\ call' = [call EXCEPT !.phase = "token", !.now = ReadAgain,
                                  !.deadline = time + Timeout]
          /\ first' = IF first = None THEN call.started ELSE first
     ELSE call' = Idle /\ UNCHANGED first
  /\ UNCHANGED <<time, offset, wall, auth, response, redeemed>>

(* The provider demands a DPoP nonce; the code is not touched. *)
Challenge ==
  /\ call.phase = "token"
  /\ Enter("retry")
  /\ UNCHANGED <<time, offset, wall, auth, response, redeemed, first>>

TokensArrive ==
  /\ call.phase \in {"token", "retry"}
  /\ ~redeemed
  /\ redeemed' = TRUE
  /\ \E l \in TokenLifetime :
       IF TokenUnexpired(time + l)
       THEN call' = [call EXCEPT !.phase = "verify", !.deadline = time + Timeout,
                                 !.expiry = time + l]
       ELSE call' = Idle
  /\ UNCHANGED <<time, offset, wall, auth, response, first>>

(* The keys for the ID token have come; UserInfo may follow. *)
IDTokenVerified ==
  /\ call.phase = "verify"
  /\ IF AcceptableAge(call.now) THEN Enter("userinfo") \/ Enter("admitted")
                                ELSE Enter("stale")
  /\ UNCHANGED <<time, offset, wall, auth, response, redeemed, first>>

(* A signed UserInfo may need keys of its own. *)
UserInfoArrives ==
  /\ call.phase = "userinfo"
  /\ Enter("userinfokeys") \/ Enter("admitted")
  /\ UNCHANGED <<time, offset, wall, auth, response, redeemed, first>>

UserInfoVerified ==
  /\ call.phase = "userinfokeys"
  /\ Enter("admitted")
  /\ UNCHANGED <<time, offset, wall, auth, response, redeemed, first>>

(* Complete returns: with an identity, or with an error at any stop. *)
Return ==
  /\ call.phase # "idle"
  /\ call' = Idle
  /\ UNCHANGED <<time, offset, wall, auth, response, redeemed, first>>

Next ==
  \/ SignIn \/ Respond \/ Tick
  \/ Complete \/ KeysArrive \/ Challenge \/ TokensArrive
  \/ IDTokenVerified \/ UserInfoArrives \/ UserInfoVerified \/ Return

Spec == Init /\ [][Next]_vars

-----------------------------------------------------------------------------
(* When Complete returns an identity, the authentication behind it is older *)
(* than max_age by no more than the tolerance, what the clock is behind,    *)
(* and the five network stops since the clock was read (api.go:256,         *)
(* exchange.go:124, 158-166, 197, 228).                                     *)
AdmittedIsFresh ==
  call.phase = "admitted" =>
    (call.deadline - Timeout) - auth <= MaxAge + Tolerance - offset + 5 * Timeout

(* By the machine's clock, which need not be Config.Clock, the ID token of an *)
(* identity that Complete returns expired no more than three network stops    *)
(* ago: its keys, UserInfo and UserInfo's keys (exchange.go:124, 197, 228).   *)
AdmittedIsUnexpired ==
  call.phase = "admitted" =>
    (call.deadline - Timeout) + wall <= call.expiry + 3 * Timeout

(* An authentication is refused as too old only if it was older than max_age *)
(* when the code was redeemed, however the clock is off within the tolerance *)
(* (exchange.go:158-166).                                                    *)
PromptIsAdmitted ==
  call.phase = "stale" => (call.now - offset) - auth > MaxAge

(* A JWT response that is accepted again is accepted less than the window    *)
(* after the first time, and never later than one network stop after it has *)
(* expired: so long an application has to remember a used state             *)
(* (jose.go:151).                                                           *)
ResponseIsShortLived ==
  call.phase = "token" =>
    /\ call.started - first < Window
    /\ call.now - response.exp < Timeout

(* A client assertion has not expired when the request it is in, the first  *)
(* one or the retry, is still answered in time; the proof of a UserInfo     *)
(* request is no older than four stops (endpoint_client.go:108-118, 203-206). *)
RequestsAreCurrent ==
  /\ call.phase \in {"token", "retry"} => Clock < AssertionExpires(call.now)
  /\ call.phase = "userinfo" => Clock - call.now <= 4 * Timeout

(* A time that is read once for several network stops is good enough: what   *)
(* is admitted is fresh by either clock, what is refused was too old, what   *)
(* is sent is current (api.go:256, endpoint_client.go:108-118,               *)
(* exchange.go:124, 158-166).                                                *)
OneReadingIsEnough ==
  AdmittedIsFresh /\ AdmittedIsUnexpired /\ PromptIsAdmitted /\ RequestsAreCurrent

=============================================================================
