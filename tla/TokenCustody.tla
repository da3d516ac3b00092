---------------------------- MODULE TokenCustody ----------------------------
(***************************************************************************)
(* The tokens of one login in the caller's hands: CompleteTokens gives the *)
(* first set, Refresh replaces it, Revoke ends it (api.go:189-315,         *)
(* token.go:12-37).  The library keeps none of them; the caller keeps one  *)
(* row, and several of its processes may work on that row at once.         *)
(*                                                                         *)
(* The provider rotates refresh tokens when it likes, and then honours the *)
(* newest one only.  A request may be executed although the call that sent *)
(* it has failed, a call may fail after its answer has arrived, and a      *)
(* process may crash before it has stored what it got.                     *)
(*                                                                         *)
(* Left to EndpointClient: the nonce retry inside one request.  Left out:  *)
(* more than one login.                                                    *)
(***************************************************************************)
EXTENDS Integers

CONSTANTS
  Worker,     \* processes of the caller
  Lifetime,   \* the values of expires_in in an answer; 0: it has none
  Limit,      \* a duration of Limit or more wraps around (2^63 nanoseconds)
  Timeout,    \* how long one network exchange may take
  MaxToken,   \* bound: refresh tokens the provider issues
  Horizon,    \* bound: the last second of the model
  None

ASSUME CustodyAssumption ==
  /\ Lifetime \subseteq Nat /\ 0 \in Lifetime
  /\ Limit \in Nat \ {0} /\ Timeout \in Nat
  /\ MaxToken \in Nat /\ Horizon \in Nat

VARIABLES
  clock,     \* Config.Clock, in seconds
  issued,    \* how many refresh tokens the provider has issued: 1, 2, ...
  current,   \* the one it honours now; 0: none
  store,     \* the caller's row
  call,      \* call[w]: the call worker w is in
  late,      \* requests whose call is over and that may still be executed
  lost,      \* refresh tokens that a call got, or was to get, and failed
  signedOut  \* history: the refresh token whose sign-out emptied the row, or 0

vars == <<clock, issued, current, store, call, late, lost, signedOut>>
provider == <<issued, current>>

RefreshToken == 0 .. MaxToken

(* An access token stands for the time it was issued at and its lifetime.   *)
(* idToken and scope: whether the set has one, and whether it names one.     *)
TokenSet ==
  [at : 0 .. Horizon, expiresIn : Lifetime, refresh : RefreshToken,
   idToken : BOOLEAN, scope : BOOLEAN, expiresAt : Int \cup {None}]

(* "unusable" fails performTokenRequest: an error, no access token, another  *)
(* token type, out of bounds.  An "invalid" ID token does not verify, or is  *)
(* not for this client and subject.                                         *)
Answer ==
  [at : 0 .. Horizon, expiresIn : Lifetime, refresh : RefreshToken,
   content : {"unusable", "no ID token", "valid", "invalid"}, scope : BOOLEAN]

ASSUME NoneAssumption == None \notin TokenSet /\ None \notin Answer /\ None \notin Int

Operation == {"login", "refresh", "revoke"}

(* "refresh" is the refresh token that is presented; a login has none. *)
Request == [op : Operation, refresh : RefreshToken]

Idle == [phase |-> "idle", request |-> None, started |-> 0, deadline |-> 0,
         answer |-> None, result |-> None]

Call ==
  [phase : {"asking", "answered", "verifying", "returned"}, request : Request,
   started : 0 .. Horizon, deadline : 0 .. Horizon + 3 * Timeout,
   answer : Answer \cup {None}, result : TokenSet \cup {None}]

TypeOK ==
  /\ clock \in 0 .. Horizon
  /\ issued \in RefreshToken
  /\ current \in {0, issued}
  /\ store \in TokenSet \cup {None}
  /\ call \in [Worker -> Call \cup {Idle}]
  /\ late \subseteq Request
  /\ lost \subseteq 1 .. issued
  /\ signedOut \in 0 .. issued
  /\ \A w \in Worker :
       (call[w].phase = "returned" /\ call[w].request.op = "login") =>
         call[w].result.idToken

Init ==
  /\ clock = 0
  /\ issued = 0 /\ current = 0
  /\ store = None
  /\ call = [w \in Worker |-> Idle]
  /\ late = {} /\ lost = {} /\ signedOut = 0

-----------------------------------------------------------------------------
(* What the library computes.                                              *)

(* time.Duration(seconds) * time.Second, in two's complement. *)
Duration(seconds) == ((seconds + Limit) % (2 * Limit)) - Limit

(* Fault: Refresh takes the time it read before the request. *)
ExpiresAtFromStart(f) ==
  IF f.request.op = "login" /\ f.answer.expiresIn = 0
  THEN None
  ELSE f.started + Duration(f.answer.expiresIn)

(* Only CompleteTokens leaves the expiry open when the answer does. *)
ExpiresAt(f) ==
  IF f.request.op = "login" /\ f.answer.expiresIn = 0
  THEN None
  ELSE clock + Duration(f.answer.expiresIn)

(* Fault: a refresh keeps the refresh token it was made with. *)
RetainedPresented(f) ==
  IF f.request.op = "refresh" THEN f.request.refresh ELSE f.answer.refresh

(* A refresh that was answered without a new refresh token keeps its own. *)
Retained(f) ==
  IF f.request.op = "refresh" /\ f.answer.refresh = 0 THEN f.request.refresh
                                              ELSE f.answer.refresh

Result(f) ==
  [at |-> f.answer.at, expiresIn |-> f.answer.expiresIn, refresh |-> Retained(f),
   idToken |-> f.answer.content = "valid", scope |-> f.answer.scope,
   expiresAt |-> ExpiresAt(f)]

(* Fault: a missing ID token is like one that Refresh need not have. *)
AcceptsNoIDToken(f) == f.answer.content \in {"no ID token", "valid"}

(* Only the code exchange insists on an ID token. *)
AcceptsIDToken(f) ==
  f.answer.content \in
    (IF f.request.op = "login" THEN {"valid"} ELSE {"no ID token", "valid"})

-----------------------------------------------------------------------------
(* Calls.                                                                  *)

Send(w, op, refresh) ==
  /\ call[w].phase = "idle"
  /\ call' = [call EXCEPT ![w] =
               [Idle EXCEPT !.phase = "asking", !.started = clock,
                            !.request = [op |-> op, refresh |-> refresh],
                            !.deadline = clock + Timeout]]
  /\ UNCHANGED <<clock, provider, store, late, lost, signedOut>>

(* CompleteTokens, at its token request.  One login. *)
Login(w) ==
  /\ \A v \in Worker : call[v].phase = "idle"
  /\ issued = 0 /\ store = None /\ late = {}
  /\ Send(w, "login", 0)

(* Refresh refuses an empty refresh token. *)
Refresh(w) ==
  /\ store # None /\ store.refresh # 0
  /\ Send(w, "refresh", store.refresh)

(* Revoke, of the refresh token in the row. *)
Revoke(w) ==
  /\ store # None /\ store.refresh # 0
  /\ Send(w, "revoke", store.refresh)

(* What is lost when the call of w fails. *)
Unstored(w) ==
  IF call[w].answer = None THEN {} ELSE {call[w].answer.refresh} \ {0}

Drop(w) ==
  /\ call' = [call EXCEPT ![w] = Idle]
  /\ lost' = lost \cup Unstored(w)

(* The stops after the answer: the keys of the ID token; for a login also    *)
(* UserInfo, and the keys of a signed UserInfo.                             *)
Stops(op) == IF op = "login" THEN 3 ELSE 1

(* performTokenRequest has the answer. *)
Receive(w) ==
  /\ call[w].phase = "answered"
  /\ call[w].request.op # "revoke"
  /\ \/ /\ call[w].answer.content # "unusable"
        /\ call' = [call EXCEPT ![w].phase = "verifying",
                                ![w].deadline =
                                  clock + Stops(call[w].request.op) * Timeout]
        /\ UNCHANGED lost
     \/ /\ call[w].answer.content = "unusable"
        /\ Drop(w)
  /\ UNCHANGED <<clock, provider, store, late, signedOut>>

(* The ID token is checked, and the call returns. *)
Return(w) ==
  /\ call[w].phase = "verifying"
  /\ \/ /\ AcceptsIDToken(call[w])
        /\ call' = [call EXCEPT ![w].phase = "returned",
                                ![w].deadline = Horizon,
                                ![w].result = Result(call[w])]
        /\ UNCHANGED lost
     \/ /\ ~AcceptsIDToken(call[w])
        /\ Drop(w)
  /\ UNCHANGED <<clock, provider, store, late, signedOut>>

(* The call fails at a stop (api.go:295-311), or its process crashes, there *)
(* or after the return.  A request on its way stays on its way.             *)
Abandon(w) ==
  /\ call[w].phase # "idle"
  /\ Drop(w)
  /\ late' = IF call[w].phase = "asking" THEN late \cup {call[w].request} ELSE late
  /\ UNCHANGED <<clock, provider, store, signedOut>>

-----------------------------------------------------------------------------
(* External: the caller's row.                                             *)

(* "The caller must atomically replace its stored token set only after      *)
(* success": the new set replaces the one the refresh was made with.        *)
Store(w) ==
  /\ call[w].phase = "returned"
  /\ call' = [call EXCEPT ![w] = Idle]
  /\ store' = IF (IF store = None THEN 0 ELSE store.refresh) = call[w].request.refresh
              THEN call[w].result ELSE store
  /\ UNCHANGED <<clock, provider, late, lost, signedOut>>

(* Fault: any answer of the revocation endpoint counts as success. *)
RevokedWhatever(answer) == answer # None

(* Revoke returns nil for 200 and 204. *)
Revoked(answer) == answer # None /\ answer.content # "unusable"

Empties(w) ==
  /\ Revoked(call[w].answer)
  /\ store # None /\ store.refresh = call[w].request.refresh

(* The caller drops the set that it has revoked. *)
SignOut(w) ==
  /\ call[w].phase = "answered"
  /\ call[w].request.op = "revoke"
  /\ call' = [call EXCEPT ![w] = Idle]
  /\ store' = IF Empties(w) THEN None ELSE store
  /\ signedOut' = IF Empties(w) THEN call[w].request.refresh ELSE signedOut
  /\ UNCHANGED <<clock, provider, late, lost>>

-----------------------------------------------------------------------------
(* External: the provider and the clock.                                   *)

Honoured(r) == r.op = "login" \/ (current # 0 /\ r.refresh = current)

(* new says whether a refresh token comes with the answer. *)
Issues(r, new) ==
  /\ r.op # "revoke"
  /\ Honoured(r)
  /\ IF new
     THEN issued < MaxToken /\ issued' = issued + 1 /\ current' = issued'
     ELSE UNCHANGED provider

(* RFC 7009: a token that is not valid any more is revoked with success. *)
Revokes(r) ==
  /\ r.op = "revoke"
  /\ current' = IF Honoured(r) THEN 0 ELSE current
  /\ UNCHANGED issued

Answered(w, answer) ==
  call' = [call EXCEPT ![w].phase = "answered", ![w].answer = answer]

(* An answer without tokens: a revocation, or an error. *)
Plain(content) ==
  [at |-> clock, expiresIn |-> 0, refresh |-> 0, content |-> content,
   scope |-> FALSE]

Execute(w) ==
  /\ call[w].phase = "asking"
  /\ \/ \E answer \in Answer :
          /\ Issues(call[w].request, answer.refresh # 0)
          /\ answer.at = clock
          /\ answer.refresh \in {0, issued'}
          /\ Answered(w, answer)
     \/ /\ Revokes(call[w].request)
        /\ Answered(w, Plain("no ID token"))
  /\ UNCHANGED <<clock, store, late, lost, signedOut>>

(* An error answer: the library reports it, whatever it says. *)
Refuse(w) ==
  /\ call[w].phase = "asking"
  /\ Answered(w, Plain("unusable"))
  /\ UNCHANGED <<clock, provider, store, late, lost, signedOut>>

(* A request arrives whose call is over; nobody hears the answer. *)
ExecuteLate(r) ==
  /\ \/ \E new \in BOOLEAN :
          /\ Issues(r, new)
          /\ lost' = IF new THEN lost \cup {issued'} ELSE lost
     \/ Revokes(r) /\ UNCHANGED lost
  /\ late' = late \ {r}
  /\ UNCHANGED <<clock, store, call, signedOut>>

(* No exchange takes longer than the transport allows. *)
Tick ==
  /\ clock < Horizon
  /\ \A w \in Worker : call[w].phase # "idle" => clock < call[w].deadline
  /\ clock' = clock + 1
  /\ UNCHANGED <<provider, store, call, late, lost, signedOut>>

Next ==
  \/ \E w \in Worker :
       \/ Login(w) \/ Refresh(w) \/ Revoke(w) \/ Receive(w) \/ Return(w)
       \/ Abandon(w) \/ Store(w) \/ SignOut(w) \/ Execute(w) \/ Refuse(w)
  \/ \E r \in late : ExecuteLate(r)
  \/ Tick

Spec == Init /\ [][Next]_vars

-----------------------------------------------------------------------------
InFlight == UNION {Unstored(w) : w \in Worker}

(* Custody: a refresh token that the provider honours is in the row, in an   *)
(* answer that a call still works on, or one that a failed call has cost.    *)
(* Calls that all succeed leave one behind in a single case: a sign-out      *)
(* empties the row with the token that an overlapping refresh has replaced   *)
(* at the provider, and the caller then drops what that refresh returns      *)
(* (api.go:279-280, 303-305, 315; token.go:33-36).                          *)
NothingLiveIsForgotten ==
  current # 0 =>
    \/ store # None /\ store.refresh = current
    \/ current \in InFlight \cup lost
    \/ signedOut # 0 /\ current = signedOut + 1

(* As long as no failure has cost a token and no call is in flight, the      *)
(* refresh token in the row is the newest one the provider has issued,      *)
(* however the calls of several workers overlapped (api.go:299-315).        *)
StoredIsNewest ==
  (store # None /\ store.refresh # 0 /\ lost = {} /\ InFlight = {}) =>
    store.refresh = issued

(* What the expiry of a token set may say when it is computed no later than  *)
(* "delay" after the provider gave the answer.                              *)
HonestWithin(set, delay) ==
  LET ends == set.at + set.expiresIn
  IN IF set.expiresAt = None
     THEN set.expiresIn = 0
     ELSE /\ set.expiresAt <= ends + delay
          /\ (0 < set.expiresIn /\ set.expiresIn < Limit) => ends <= set.expiresAt

(* The expiry that a call returns, and the one in the row, is late by no     *)
(* more than the request and the stops after it, whatever the lifetime: also *)
(* when the answer has none, and when it wraps around.  It is never early,   *)
(* for a lifetime that fits in a duration.  It is open only where the answer *)
(* of a login has no lifetime (api.go:268-271, 306, 315; exchange.go:124,    *)
(* 197, 228).                                                               *)
ExpiryIsHonest ==
  /\ \A w \in Worker :
       call[w].phase = "returned" =>
         LET op == call[w].request.op
         IN /\ HonestWithin(call[w].result, (1 + Stops(op)) * Timeout)
            /\ call[w].result.expiresAt = None => op = "login"
  /\ store # None => HonestWithin(store, 4 * Timeout)

(* api.go:286-287: "returns a complete replacement token set": what the      *)
(* caller had, it has after the replacement.                                *)
ReplacementIsComplete ==
  [][(store # None /\ store' # None) =>
        /\ store.idToken => store'.idToken
        /\ store.scope => store'.scope]_vars

=============================================================================
