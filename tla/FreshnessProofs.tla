-------------------------- MODULE FreshnessProofs --------------------------
(***************************************************************************)
(* For any durations that keep their order, and any clocks that are off by *)
(* no more than the tolerance: how far a reading lies behind its use.      *)
(***************************************************************************)
EXTENDS Freshness, TLAPS

(* The call is at a network stop that it has not overstayed. *)
Waiting == call.phase # "idle"

CallOK ==
  Waiting =>
    /\ call.phase \in Phase
    /\ call.started \in Int /\ call.now \in Int /\ call.deadline \in Nat
    /\ call.expiry \in Nat
    /\ time <= call.deadline
    /\ response # None

(* How old the reading that a completion uses may become at each stop.      *)
AgeBound ==
  /\ call.phase = "keys" => call.started = call.now
  /\ call.phase \in {"keys", "token"} => call.deadline <= call.now - offset + Timeout
  /\ call.phase = "retry" => call.deadline <= call.now - offset + 2 * Timeout
  /\ call.phase = "verify" => call.deadline <= call.now - offset + 3 * Timeout
  /\ call.phase \in {"userinfo", "stale"} =>
       call.deadline <= call.now - offset + 4 * Timeout
  /\ call.phase = "userinfokeys" => call.deadline <= call.now - offset + 5 * Timeout
  /\ call.phase = "admitted" => call.deadline <= call.now - offset + 6 * Timeout

(* How long ago the ID token may have expired at each stop.                 *)
ExpiryBound ==
  /\ call.phase = "verify" => call.deadline + wall <= call.expiry + Timeout
  /\ call.phase = "userinfo" => call.deadline + wall <= call.expiry + 2 * Timeout
  /\ call.phase = "userinfokeys" => call.deadline + wall <= call.expiry + 3 * Timeout
  /\ call.phase = "admitted" => call.deadline + wall <= call.expiry + 4 * Timeout

(* The user signed in before the response, and that before the completion.  *)
SignInFirst ==
  /\ auth # None => auth <= time
  /\ Waiting => auth <= call.started - offset

(* What the checks of a completion have left of their arguments. *)
Checked ==
  /\ call.phase \in {"userinfo", "userinfokeys", "admitted"} =>
       call.now <= auth + MaxAge + Tolerance
  /\ call.phase = "stale" => ~AcceptableAge(call.now)
  /\ first # None => response # None /\ response.exp <= first + Window
  /\ call.phase = "token" =>
       call.started < response.exp /\ call.now <= call.started + Timeout

FreshInv == TypeOK /\ CallOK /\ AgeBound /\ ExpiryBound /\ SignInFirst /\ Checked

(* The constants, as the arithmetic needs them. *)
LEMMA Durations ==
  /\ MaxAge \in Nat /\ Tolerance \in Nat /\ Window \in Nat
  /\ AssertionLifetime \in Nat /\ Timeout \in Nat /\ Drift \in Nat
  /\ Horizon \in Nat /\ Drift <= Tolerance /\ 2 * Timeout < AssertionLifetime
  /\ Lifetime \subseteq Nat /\ TokenLifetime \subseteq Nat /\ None \notin Int
  BY FreshnessAssumption

(* The state as the arithmetic needs it. *)
LEMMA Readings ==
  ASSUME TypeOK
  PROVE  /\ time \in Nat /\ time <= Horizon
         /\ offset \in Int /\ -Drift <= offset /\ offset <= Drift
         /\ wall \in Int
         /\ time + offset \in Reading
         /\ auth # None => auth \in Nat
         /\ first # None => first \in Int
         /\ response # None => response.iat \in Nat /\ response.exp \in Nat
  BY Durations DEF TypeOK, Instant, Reading, Response

(* A call goes on to its next stop, within its deadline. *)
LEMMA EnterIs ==
  ASSUME TypeOK, CallOK, Waiting, NEW p \in Phase, Enter(p)
  PROVE  /\ call' = [phase |-> p, started |-> call.started, now |-> call.now,
                     deadline |-> time + Timeout, expiry |-> call.expiry]
         /\ call.started \in Reading /\ call.now \in Reading /\ call.expiry \in Nat
         /\ time + Timeout \in Nat
         /\ call' \in Call
  <1>1. call \in Call
    BY DEF TypeOK, Waiting, Idle
  <1>2. call.started \in Reading /\ call.now \in Reading /\ call.expiry \in Nat
    BY <1>1 DEF Call
  <1>3. time + Timeout \in Nat
    BY Readings, Durations
  <1>4. call' = [phase |-> p, started |-> call.started, now |-> call.now,
                 deadline |-> time + Timeout, expiry |-> call.expiry]
    BY <1>1 DEF Enter, Call
  <1> QED
    BY <1>2, <1>3, <1>4 DEF Call

(* The invariant holds at the start and after every step. *)
THEOREM FreshInductive == Spec => []FreshInv
  <1>1. Init => FreshInv
    <2> SUFFICES ASSUME Init PROVE FreshInv
      OBVIOUS
    <2>1. call = Idle /\ call.phase = "idle"
      BY DEF Init, Idle
    <2>2. TypeOK
      <3>1. redeemed \in BOOLEAN
        BY DEF Init
      <3>2. time \in Instant
        BY Durations DEF Init, Instant
      <3> QED
        BY <2>1, <3>1, <3>2 DEF Init, TypeOK, AfterTokens
    <2> QED
      BY <2>1, <2>2 DEF Init, FreshInv, CallOK, AgeBound, ExpiryBound, SignInFirst,
         Checked, Waiting
  <1>2. FreshInv /\ [Next]_vars => FreshInv'
    <2> SUFFICES ASSUME FreshInv, [Next]_vars PROVE FreshInv'
      OBVIOUS
    <2>1. TypeOK /\ CallOK /\ AgeBound /\ ExpiryBound /\ SignInFirst
         /\ Checked
      BY DEF FreshInv
    <2> USE <2>1, Durations, Readings
    <2>2. CASE SignIn
      <3>1. call.phase = "idle"
        BY <2>2 DEF SignIn, CallOK, Waiting
      <3>2. TypeOK'
        BY <2>2, <3>1 DEF SignIn, TypeOK, AfterTokens, Instant
      <3> QED
        BY <2>2, <3>1, <3>2 DEF SignIn, FreshInv, CallOK, AgeBound, ExpiryBound,
           SignInFirst, Checked, Waiting
    <2>3. CASE Respond
      <3>1. call.phase = "idle"
        BY <2>3 DEF Respond, CallOK, Waiting
      <3>2. first = None
        BY <2>3 DEF Respond, Checked
      <3>3. TypeOK'
        BY <2>3, <3>1, <3>2 DEF Respond, TypeOK, AfterTokens, Response, Instant
      <3> QED
        BY <2>3, <3>1, <3>2, <3>3 DEF Respond, FreshInv, CallOK, AgeBound,
           ExpiryBound, SignInFirst, Checked, Waiting
    <2>4. CASE Tick
      <3>1. TypeOK'
        BY <2>4 DEF Tick, TypeOK, AfterTokens, Instant, Reading, Call, Idle
      <3> QED
        BY <2>4, <3>1 DEF Tick, FreshInv, CallOK, AgeBound, ExpiryBound,
           SignInFirst, Checked, Waiting, AcceptableAge
    <2>5. CASE Complete
      <3>1. Clock \in Reading /\ Clock \in Int /\ time + Timeout \in Nat
        BY DEF Clock
      <3>2. call' = [phase |-> "keys", started |-> Clock, now |-> Clock,
                     deadline |-> time + Timeout, expiry |-> 0]
        BY <2>5 DEF Complete
      <3>3. TypeOK'
        BY <2>5, <3>1, <3>2 DEF Complete, TypeOK, AfterTokens, Call, Phase, Clock
      <3>4. auth \in Nat /\ auth <= time
        BY <2>5 DEF Complete, TypeOK, AfterTokens, ExpiryBound, SignInFirst
      <3> QED
        BY <2>5, <3>1, <3>2, <3>3, <3>4 DEF Complete, FreshInv, CallOK, AgeBound,
           ExpiryBound, SignInFirst, Checked, Waiting, Phase, Clock
    <2>6. CASE KeysArrive
      <3>1. CASE ResponseInWindow(call.started)
        <4>1. Waiting /\ call \in Call /\ call.started \in Reading
          BY <2>6 DEF KeysArrive, TypeOK, AfterTokens, Call, Idle, Waiting
        <4>2. call' = [phase |-> "token", started |-> call.started, now |-> Clock,
                       deadline |-> time + Timeout, expiry |-> call.expiry]
          BY <2>6, <3>1, <4>1 DEF KeysArrive, ReadAgain, Call
        <4>3. /\ Clock \in Reading /\ Clock \in Int /\ time + Timeout \in Nat
              /\ call.started <= Clock
          <5>1. call.started \in Int /\ call.now \in Int
            BY <4>1 DEF CallOK
          <5>2. call.started <= call.now /\ call.now <= time + offset
            BY <4>1 DEF TypeOK, AfterTokens, Waiting
          <5> QED
            BY <5>1, <5>2 DEF Clock
        <4>4. first' = IF first = None THEN call.started ELSE first
          BY <2>6, <3>1 DEF KeysArrive
        <4>5. first' # None /\ first' \in Reading
          BY <4>1, <4>4 DEF TypeOK, AfterTokens, Reading
        <4>6. TypeOK'
          BY <2>6, <4>1, <4>2, <4>3, <4>5 DEF KeysArrive, TypeOK, AfterTokens, Call,
             Phase, Clock
        <4>7. /\ call.started < response.exp
              /\ response.exp <= call.started + Window
          BY <3>1 DEF ResponseInWindow
        <4>8. call'.now <= call'.started + Timeout
          BY <2>6, <4>1, <4>2, <4>3 DEF KeysArrive, CallOK, AgeBound, Clock, Waiting
        <4>9. Checked'
          BY <2>6, <4>1, <4>2, <4>4, <4>7, <4>8 DEF KeysArrive, Checked, CallOK
        <4> QED
          BY <2>6, <4>1, <4>2, <4>3, <4>6, <4>9 DEF KeysArrive, FreshInv, CallOK,
             AgeBound, ExpiryBound, SignInFirst, Waiting, Phase, Clock
      <3>2. CASE ~ResponseInWindow(call.started)
        <4>1. call' = Idle /\ TypeOK'
          BY <2>6, <3>2 DEF KeysArrive, TypeOK, AfterTokens, Idle
        <4> QED
          BY <2>6, <3>2, <4>1 DEF KeysArrive, FreshInv, CallOK, AgeBound,
             ExpiryBound, SignInFirst, Checked, Waiting, Idle
      <3> QED
        BY <3>1, <3>2
    <2>7. CASE Challenge
      <3>1. Enter("retry") /\ Waiting /\ "retry" \in Phase
        BY <2>7 DEF Challenge, Waiting, Phase
      <3>2. TypeOK'
        BY <2>7, <3>1, EnterIs DEF Challenge, TypeOK, AfterTokens, Waiting, Call
      <3> QED
        BY <2>7, <3>1, <3>2, EnterIs DEF Challenge, FreshInv, CallOK, AgeBound,
           ExpiryBound, SignInFirst, Checked, Waiting
    <2>8. CASE TokensArrive
      <3>1. PICK l \in TokenLifetime :
              IF TokenUnexpired(time + l)
              THEN call' = [call EXCEPT !.phase = "verify",
                                        !.deadline = time + Timeout,
                                        !.expiry = time + l]
              ELSE call' = Idle
        BY <2>8 DEF TokensArrive
      <3>2. CASE TokenUnexpired(time + l)
        <4>1. Waiting /\ "verify" \in Phase
          BY <2>8 DEF TokensArrive, Waiting, Phase
        <4>2. call \in Call /\ call.started \in Reading /\ call.now \in Reading
          BY <4>1 DEF TypeOK, AfterTokens, Waiting, Idle, Call
        <4>3. time + l \in Nat /\ time + Timeout \in Nat
          OBVIOUS
        <4>4. call' = [phase |-> "verify", started |-> call.started, now |-> call.now,
                       deadline |-> time + Timeout, expiry |-> time + l]
          BY <3>1, <3>2, <4>2 DEF Call
        <4>5. call' \in Call
          BY <4>1, <4>2, <4>3, <4>4 DEF Call
        <4>6. TypeOK'
          BY <2>8, <4>1, <4>4, <4>5 DEF TokensArrive, TypeOK, Waiting, AfterTokens
        <4>7. time + wall <= time + l
          BY <3>2 DEF TokenUnexpired
        <4> QED
          BY <2>8, <4>1, <4>2, <4>3, <4>4, <4>6, <4>7 DEF TokensArrive, FreshInv,
             CallOK, AgeBound, ExpiryBound, SignInFirst, Checked, Waiting
      <3>3. CASE ~TokenUnexpired(time + l)
        <4>1. call' = Idle /\ TypeOK'
          BY <2>8, <3>1, <3>3 DEF TokensArrive, TypeOK, Idle, AfterTokens
        <4> QED
          BY <2>8, <4>1 DEF TokensArrive, FreshInv, CallOK, AgeBound, ExpiryBound,
             SignInFirst, Checked, Waiting, Idle
      <3> QED
        BY <3>2, <3>3
    <2>9. CASE IDTokenVerified
      <3>1. Waiting /\ {"userinfo", "admitted", "stale"} \subseteq Phase
        BY <2>9 DEF IDTokenVerified, Waiting, Phase
      <3>2. PICK p \in {"userinfo", "admitted", "stale"} :
              Enter(p) /\ (p = "stale" <=> ~AcceptableAge(call.now))
        BY <2>9 DEF IDTokenVerified
      <3>3. TypeOK'
        BY <2>9, <3>1, <3>2, EnterIs DEF IDTokenVerified, TypeOK, AfterTokens,
           Waiting
      <3>4. Checked'
        BY <2>9, <3>1, <3>2, EnterIs DEF IDTokenVerified, Checked, AcceptableAge
      <3> QED
        BY <2>9, <3>1, <3>2, <3>3, <3>4, EnterIs DEF IDTokenVerified, FreshInv,
           CallOK, AgeBound, ExpiryBound, SignInFirst, Waiting
    <2>10. CASE UserInfoArrives
      <3>1. Waiting /\ {"userinfokeys", "admitted"} \subseteq Phase
        BY <2>10 DEF UserInfoArrives, Waiting, Phase
      <3>2. PICK p \in {"userinfokeys", "admitted"} : Enter(p)
        BY <2>10 DEF UserInfoArrives
      <3>3. TypeOK'
        BY <2>10, <3>1, <3>2, EnterIs DEF UserInfoArrives, TypeOK, AfterTokens,
           Waiting
      <3> QED
        BY <2>10, <3>1, <3>2, <3>3, EnterIs DEF UserInfoArrives, FreshInv, CallOK,
           AgeBound, ExpiryBound, SignInFirst, Checked, Waiting
    <2>11. CASE UserInfoVerified
      <3>1. Enter("admitted") /\ Waiting /\ "admitted" \in Phase
        BY <2>11 DEF UserInfoVerified, Waiting, Phase
      <3>2. TypeOK'
        BY <2>11, <3>1, EnterIs DEF UserInfoVerified, TypeOK, AfterTokens, Waiting,
           Call
      <3> QED
        BY <2>11, <3>1, <3>2, EnterIs DEF UserInfoVerified, FreshInv, CallOK,
           AgeBound, ExpiryBound, SignInFirst, Checked, Waiting
    <2>12. CASE Return
      <3>1. call' = Idle /\ TypeOK'
        BY <2>12 DEF Return, TypeOK, AfterTokens, Idle
      <3> QED
        BY <2>12, <3>1 DEF Return, FreshInv, CallOK, AgeBound, ExpiryBound,
           SignInFirst, Checked, Waiting, Idle
    <2>13. CASE UNCHANGED vars
      BY <2>13 DEF vars, FreshInv, TypeOK, CallOK, AgeBound, ExpiryBound,
         SignInFirst, Checked, AfterTokens, Waiting, AcceptableAge
    <2> QED
      BY <2>2, <2>3, <2>4, <2>5, <2>6, <2>7, <2>8, <2>9, <2>10, <2>11, <2>12, <2>13
         DEF Next
  <1> QED
    BY <1>1, <1>2, PTL DEF Spec

(* Type correctness. *)
THEOREM FreshTypes == Spec => []TypeOK
  <1>1. FreshInv => TypeOK
    BY DEF FreshInv
  <1> QED
    BY <1>1, FreshInductive, PTL

(* One reading of the clock serves five network stops: what is admitted is   *)
(* fresh by Config.Clock, and by the machine's clock its ID token expired at *)
(* most three stops ago; what is refused was too old; what is sent is current *)
(* (api.go:256, endpoint_client.go:108-118, exchange.go:124, 158-166, 228).   *)
THEOREM FreshReading == Spec => []OneReadingIsEnough
  <1>1. FreshInv => OneReadingIsEnough
    <2> SUFFICES ASSUME FreshInv PROVE OneReadingIsEnough
      OBVIOUS
    <2>1. TypeOK /\ CallOK /\ AgeBound /\ ExpiryBound /\ SignInFirst
         /\ Checked
      BY DEF FreshInv
    <2> USE <2>1, Durations, Readings
    <2>2. Waiting => auth \in Nat
      BY DEF CallOK, TypeOK
    <2>3. AdmittedIsFresh
      BY <2>2 DEF AdmittedIsFresh, CallOK, AgeBound, Checked, Waiting
    <2>4. AdmittedIsUnexpired
      BY DEF AdmittedIsUnexpired, CallOK, ExpiryBound, Waiting
    <2>5. PromptIsAdmitted
      <3> SUFFICES ASSUME call.phase = "stale"
                   PROVE  (call.now - offset) - auth > MaxAge
        BY DEF PromptIsAdmitted
      <3>1. /\ auth \in Nat /\ call.now \in Int /\ call.started \in Int
            /\ auth <= call.started - offset /\ call.started <= call.now
        BY <2>2 DEF CallOK, ExpiryBound, SignInFirst, Waiting, TypeOK
      <3>2. call.now > auth + MaxAge + Tolerance
        BY <3>1 DEF Checked, AcceptableAge
      <3> QED
        BY <3>1, <3>2
    <2>6. RequestsAreCurrent
      BY DEF RequestsAreCurrent, CallOK, AgeBound, Waiting, Clock, AssertionExpires
    <2> QED
      BY <2>3, <2>4, <2>5, <2>6 DEF OneReadingIsEnough
  <1> QED
    BY <1>1, FreshInductive, PTL

(* A JWT response is accepted for less than the window after it was first   *)
(* accepted, and less than one network stop after it has expired             *)
(* (jose.go:151).                                                           *)
THEOREM FreshResponse == Spec => []ResponseIsShortLived
  <1>1. FreshInv => ResponseIsShortLived
    <2> SUFFICES ASSUME FreshInv, call.phase = "token"
                 PROVE  /\ call.started - first < Window
                        /\ call.now - response.exp < Timeout
      BY DEF ResponseIsShortLived
    <2>1. /\ call.started \in Int /\ call.now \in Int
          /\ first # None /\ response # None
      BY DEF FreshInv, CallOK, TypeOK, AfterTokens, Waiting
    <2>2. first \in Int /\ response.exp \in Nat
      BY <2>1, Readings DEF FreshInv
    <2> QED
      BY <2>1, <2>2, Durations DEF FreshInv, Checked
  <1> QED
    BY <1>1, FreshInductive, PTL

=============================================================================
