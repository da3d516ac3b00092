------------------------ MODULE TokenCustodyProofs ------------------------
(***************************************************************************)
(* For any number of workers and of refresh tokens: where a refresh token   *)
(* that the provider honours may be, and that without a failure the row     *)
(* holds the newest one.                                                   *)
(***************************************************************************)
EXTENDS TokenCustody, TLAPS

(* One call: what it presents was issued, what it was answered is the next,  *)
(* a result keeps one of the two, and what was revoked is honoured no more. *)
CallOK(c, newest, honoured) ==
  c.phase # "idle" =>
    /\ c.request.refresh \in 0 .. newest
    /\ c.request.op = "login" <=> c.request.refresh = 0
    /\ c.phase = "asking" => c.answer = None
    /\ c.phase # "asking" =>
         /\ c.answer \in Answer
         /\ c.answer.refresh <= newest
         /\ c.answer.refresh # 0 => c.answer.refresh = c.request.refresh + 1
    /\ c.phase \in {"verifying", "returned"} => c.request.op # "revoke"
    /\ c.phase = "returned" =>
         c.result \in TokenSet /\ c.result.refresh = Retained(c)
    /\ (c.phase = "answered" /\ c.request.op = "revoke") =>
         /\ c.answer.refresh = 0
         /\ Revoked(c.answer) => honoured # c.request.refresh

(* A login that has returned has an ID token. *)
LoginHasIDToken(c) ==
  (c.phase = "returned" /\ c.request.op = "login") => c.result.idToken

(* A login has the provider, the row and the library for itself. *)
Solo ==
  \A w \in Worker :
    (call[w].phase # "idle" /\ call[w].request.op = "login") =>
      /\ store = None /\ late = {} /\ signedOut = 0
      /\ \A v \in Worker \ {w} : call[v] = Idle
      /\ issued = IF call[w].answer = None THEN 0 ELSE call[w].answer.refresh

(* The newest token is in the row or under way, unless one was lost. *)
NewestIsNear ==
  (store # None /\ store.refresh # 0 /\ lost = {}) =>
    store.refresh = issued \/ issued \in InFlight

(* The row holds what was issued, and nothing after a sign-out. *)
RowOK(row, out, newest) ==
  /\ row # None => row.refresh <= newest
  /\ out # 0 => row = None

(* What a refresh was made with is still in the row, or a sign-out has ended *)
(* it, or it has been replaced by what another refresh was answered.        *)
Placed(c, row, out, newest) ==
  (c.phase # "idle" /\ c.request.op = "refresh") =>
    \/ row # None /\ row.refresh = c.request.refresh
    \/ row = None /\ out = c.request.refresh
    \/ c.request.refresh < newest /\ (c.answer = None \/ c.answer.refresh = 0)

Places == \A w \in Worker : Placed(call[w], store, signedOut, issued)

(* No two calls were answered with the same refresh token. *)
Apart ==
  \A v, w \in Worker : v # w => Unstored(v) \cap Unstored(w) = {}

CustodyInv ==
  /\ TypeOK
  /\ RowOK(store, signedOut, issued)
  /\ Places /\ Apart
  /\ \A w \in Worker : CallOK(call[w], issued, current)
  /\ Solo
  /\ NothingLiveIsForgotten
  /\ NewestIsNear

(* The refresh token of an answer. *)
LEMMA AnswerIs ==
  ASSUME NEW a \in Answer
  PROVE  a.refresh \in Nat /\ a.refresh \in RefreshToken
  <1>1. a.refresh \in RefreshToken
    BY DEF Answer
  <1>2. RefreshToken \subseteq Nat
    BY CustodyAssumption DEF RefreshToken
  <1> QED
    BY <1>1, <1>2

(* No lifetime, and no refresh token. *)
LEMMA NothingIs == 0 \in Lifetime /\ 0 \in RefreshToken
  BY CustodyAssumption DEF RefreshToken

(* An answer without tokens. *)
LEMMA PlainIs ==
  ASSUME TypeOK, NEW content \in {"unusable", "no ID token"}
  PROVE  Plain(content) \in Answer /\ Plain(content).refresh = 0
  <1>1. clock \in 0 .. Horizon
    BY DEF TypeOK
  <1>2. ASSUME NEW scope \in BOOLEAN
        PROVE  [at |-> clock, expiresIn |-> 0, refresh |-> 0, content |-> content,
                scope |-> scope] \in Answer
    BY <1>1, NothingIs DEF Answer
  <1>3. Plain(content) \in Answer
    BY <1>2 DEF Plain
  <1> QED
    BY <1>3 DEF Plain

(* The refresh token of the row. *)
LEMMA RowIs ==
  ASSUME TypeOK
  PROVE  store # None => store.refresh \in Nat /\ store.refresh \in RefreshToken
  BY CustodyAssumption DEF TypeOK, TokenSet, RefreshToken

(* The last instant of a call that begins now. *)
LEMMA Deadlines ==
  ASSUME TypeOK
  PROVE  /\ clock \in 0 .. Horizon /\ Horizon \in 0 .. Horizon + 3 * Timeout
         /\ clock + Timeout \in 0 .. Horizon + 3 * Timeout
         /\ \A op : clock + Stops(op) * Timeout \in 0 .. Horizon + 3 * Timeout
  <1>1. clock \in 0 .. Horizon
    BY DEF TypeOK
  <1>2. \A op : Stops(op) * Timeout = Timeout \/ Stops(op) * Timeout = 3 * Timeout
    BY CustodyAssumption DEF Stops
  <1> QED
    BY <1>1, <1>2, CustodyAssumption

(* What the calls other than that of w hold. *)
Others(w) == UNION {Unstored(v) : v \in Worker \ {w}}

(* What is in flight is held by one call or by the others, before a step    *)
(* and after it.                                                           *)
LEMMA InFlightIs ==
  ASSUME NEW w \in Worker
  PROVE  /\ InFlight = Others(w) \cup Unstored(w)
         /\ InFlight' = Others(w)' \cup Unstored(w)'
  BY DEF InFlight, Others

(* A step of one call leaves what the others hold. *)
LEMMA OthersStay ==
  ASSUME NEW w \in Worker, \A v \in Worker \ {w} : call'[v] = call[v]
  PROVE  Others(w)' = Others(w)
  <1>1. \A v \in Worker \ {w} : Unstored(v)' = Unstored(v)
    BY DEF Unstored
  <1> QED
    BY <1>1 DEF Others

(* What one call holds is its own as long as it takes nothing of the others. *)
LEMMA ApartStep ==
  ASSUME Apart, NEW w \in Worker, \A v \in Worker \ {w} : call'[v] = call[v],
         Unstored(w)' \cap Others(w) \subseteq Unstored(w)
  PROVE  Apart'
  <1>1. \A v \in Worker \ {w} : Unstored(v)' = Unstored(v)
    BY DEF Unstored
  <1>2. \A v \in Worker \ {w} : Unstored(v) \subseteq Others(w)
    BY DEF Others
  <1>3. \A v \in Worker \ {w} : Unstored(w)' \cap Unstored(v)' = {}
    BY <1>1, <1>2 DEF Apart
  <1>4. \A v, u \in Worker \ {w} : v # u => Unstored(v)' \cap Unstored(u)' = {}
    BY <1>1 DEF Apart
  <1>5. \A v, u \in Worker : v # u => Unstored(v)' \cap Unstored(u)' = {}
    BY <1>3, <1>4
  <1> QED
    BY <1>5 DEF Apart

(* A call of the model, or none. *)
LEMMA CallIs ==
  ASSUME TypeOK, NEW w \in Worker
  PROVE  /\ call[w] \in Call \cup {Idle}
         /\ Idle.phase = "idle" /\ Idle.answer = None
         /\ call[w].phase = "idle" => call[w] = Idle /\ Unstored(w) = {}
         /\ call[w].phase # "idle" => call[w] \in Call
         /\ current \in {0, issued} /\ issued \in Nat
  <1>1. call[w] \in Call \cup {Idle}
    BY DEF TypeOK
  <1>2. Idle.phase = "idle" /\ Idle.answer = None
    BY DEF Idle
  <1>3. call[w].phase = "idle" => call[w] = Idle
    BY <1>1 DEF Call
  <1>4. current \in {0, issued} /\ issued \in Nat
    BY CustodyAssumption DEF TypeOK, RefreshToken
  <1> QED
    BY <1>1, <1>2, <1>3, <1>4 DEF Unstored

(* What a call holds was issued. *)
LEMMA UnstoredIs ==
  ASSUME issued \in Nat, NEW w \in Worker, call[w] \in Call \cup {Idle},
         CallOK(call[w], issued, current)
  PROVE  Unstored(w) \subseteq 1 .. issued
  <1>1. CASE call[w].answer = None
    BY <1>1 DEF Unstored
  <1>2. CASE call[w].answer # None
    <2>1. call[w].phase \notin {"idle", "asking"}
      BY <1>2 DEF CallOK, Idle, Call
    <2>2. call[w].answer \in Answer /\ call[w].answer.refresh <= issued
      BY <2>1 DEF CallOK
    <2> QED
      BY <2>2, AnswerIs DEF Unstored
  <1> QED
    BY <1>1, <1>2

(* A call stays as it should be while tokens are issued, as long as no token *)
(* that was revoked is honoured again.                                      *)
LEMMA CallStays ==
  ASSUME NEW c \in Call \cup {Idle},
         NEW n \in Nat, NEW m \in Nat, NEW h \in Nat, NEW k \in Nat,
         CallOK(c, n, h), n <= m, k \in {h, 0} \/ n < k
  PROVE  CallOK(c, m, k)
  <1> SUFFICES ASSUME c.phase # "idle" PROVE CallOK(c, m, k)
    BY DEF CallOK
  <1>1. c.request.refresh \in 0 .. n
    BY DEF CallOK
  <1>2. ASSUME c.phase # "asking"
        PROVE  c.answer.refresh \in Nat /\ c.answer.refresh <= n
    <2>1. c.answer \in Answer /\ c.answer.refresh <= n
      BY <1>2 DEF CallOK
    <2> QED
      BY <2>1, AnswerIs
  <1>3. c.request.op = "revoke" => c.request.refresh # 0
    BY DEF CallOK
  <1>4. (c.phase = "answered" /\ c.request.op = "revoke") =>
          c.answer.refresh = 0 /\ (Revoked(c.answer) => k # c.request.refresh)
    BY <1>1, <1>3 DEF CallOK
  <1> QED
    BY <1>1, <1>2, <1>4 DEF CallOK

(* The call of w becomes c. *)
Becomes(w, c) == call' = [call EXCEPT ![w] = c]

(* A step of one call: it becomes c, and the others stay as they should be. *)
LEMMA CallsStep ==
  ASSUME TypeOK, current \in Nat, issued \in Nat,
         \A v \in Worker : CallOK(call[v], issued, current),
         NEW w \in Worker, NEW c \in Call \cup {Idle}, Becomes(w, c),
         issued' \in Nat, current' \in Nat, issued <= issued',
         current' \in {current, 0} \/ issued < current',
         CallOK(c, issued', current'),
         LoginHasIDToken(c)
  PROVE  /\ call' \in [Worker -> Call \cup {Idle}]
         /\ call'[w] = c
         /\ \A v \in Worker \ {w} : call'[v] = call[v]
         /\ \A v \in Worker : CallOK(call'[v], issued', current')
         /\ \A v \in Worker : LoginHasIDToken(call'[v])
  <1>1. call \in [Worker -> Call \cup {Idle}]
    BY DEF TypeOK
  <1>2. /\ call' \in [Worker -> Call \cup {Idle}] /\ call'[w] = c
        /\ \A v \in Worker \ {w} : call'[v] = call[v]
    BY <1>1 DEF Becomes
  <1>3. ASSUME NEW v \in Worker \ {w} PROVE CallOK(call[v], issued', current')
    BY <1>1, CallStays
  <1>4. \A v \in Worker : LoginHasIDToken(call[v])
    BY DEF TypeOK, LoginHasIDToken
  <1>5. \A v \in Worker : CallOK(call'[v], issued', current')
    BY <1>2, <1>3
  <1> QED
    BY <1>2, <1>4, <1>5

(* A call that goes on, or ends, leaves a login alone. *)
LEMMA SoloStep ==
  ASSUME Solo, NEW w \in Worker, call[w].phase # "idle",
         \A v \in Worker \ {w} : call'[v] = call[v],
         \/ call'[w] = Idle
         \/ /\ call'[w].request = call[w].request
            /\ call[w].request.op = "login" =>
                 /\ store' = None /\ late' = {} /\ signedOut' = 0
                 /\ issued' = IF call'[w].answer = None THEN 0
                              ELSE call'[w].answer.refresh
  PROVE  Solo'
  <1> SUFFICES ASSUME NEW u \in Worker, call'[u].phase # "idle",
                      call'[u].request.op = "login"
               PROVE  /\ store' = None /\ late' = {} /\ signedOut' = 0
                      /\ \A v \in Worker \ {u} : call'[v] = Idle
                      /\ issued' = IF call'[u].answer = None THEN 0
                                   ELSE call'[u].answer.refresh
    BY DEF Solo
  <1>1. Idle.phase = "idle"
    BY DEF Idle
  <1>2. u = w
    BY <1>1 DEF Solo
  <1>3. call'[w].request = call[w].request
    BY <1>1, <1>2
  <1> QED
    BY <1>1, <1>2, <1>3 DEF Solo

(* A call that goes on with what it has changes nothing else. *)
LEMMA QuietStep ==
  ASSUME CustodyInv, NEW w \in Worker, call[w].phase # "idle",
         NEW c \in Call, Becomes(w, c),
         c.request = call[w].request, c.answer = call[w].answer,
         CallOK(c, issued, current),
         LoginHasIDToken(c),
         UNCHANGED <<clock, provider, store, late, lost, signedOut>>
  PROVE  CustodyInv'
  <1>1. /\ TypeOK /\ Solo /\ NothingLiveIsForgotten /\ NewestIsNear
        /\ RowOK(store, signedOut, issued) /\ Places /\ Apart
        /\ \A v \in Worker : CallOK(call[v], issued, current)
    BY DEF CustodyInv
  <1>2. issued \in Nat /\ current \in Nat
    BY <1>1, CallIs
  <1>3. /\ issued' = issued /\ current' = current /\ store' = store /\ late' = late
        /\ lost' = lost /\ clock' = clock /\ signedOut' = signedOut
    BY DEF provider
  <1>4. /\ call' \in [Worker -> Call \cup {Idle}] /\ call'[w] = c
        /\ \A v \in Worker \ {w} : call'[v] = call[v]
        /\ \A v \in Worker : CallOK(call'[v], issued', current')
        /\ \A v \in Worker : LoginHasIDToken(call'[v])
    BY <1>1, <1>2, <1>3, CallsStep
  <1>5. TypeOK'
    BY <1>1, <1>3, <1>4 DEF TypeOK, LoginHasIDToken
  <1>6. Solo'
    <2>1. call[w].request.op = "login" =>
            /\ store' = None /\ late' = {} /\ signedOut' = 0
            /\ issued' = IF call'[w].answer = None THEN 0 ELSE call'[w].answer.refresh
      BY <1>1, <1>3, <1>4 DEF Solo
    <2> QED
      BY <1>1, <1>4, <2>1, SoloStep
  <1>7. InFlight' = InFlight /\ Apart'
    <2>1. Unstored(w)' = Unstored(w)
      BY <1>4 DEF Unstored
    <2> QED
      BY <1>1, <1>4, <2>1, OthersStay, InFlightIs, ApartStep
  <1>9. RowOK(store, signedOut, issued)' /\ Places'
    <2>1. CASE call[w].request.op = "refresh"
      BY <1>1, <1>3, <1>4 DEF RowOK, Places, Placed
    <2>2. CASE call[w].request.op # "refresh"
      BY <1>1, <1>3, <1>4, <2>2 DEF RowOK, Places, Placed
    <2> QED
      BY <2>1, <2>2
  <1>8. NothingLiveIsForgotten' /\ NewestIsNear'
    BY <1>1, <1>3, <1>7 DEF NothingLiveIsForgotten, NewestIsNear
  <1> QED
    BY <1>4, <1>5, <1>6, <1>7, <1>8, <1>9 DEF CustodyInv

(* A call that fails: what it held is lost. *)
LEMMA DropStep ==
  ASSUME CustodyInv, NEW w \in Worker, call[w].phase # "idle", Drop(w),
         UNCHANGED <<clock, provider, store, signedOut>>, late' \subseteq Request
  PROVE  CustodyInv'
  <1>1. /\ TypeOK /\ Solo /\ NothingLiveIsForgotten /\ NewestIsNear
        /\ RowOK(store, signedOut, issued) /\ Places /\ Apart
        /\ \A v \in Worker : CallOK(call[v], issued, current)
    BY DEF CustodyInv
  <1>2. issued \in Nat /\ current \in Nat /\ Idle.phase = "idle" /\ Idle.answer = None
    BY <1>1, CallIs
  <1>3. /\ issued' = issued /\ current' = current /\ store' = store
        /\ clock' = clock /\ lost' = lost \cup Unstored(w) /\ signedOut' = signedOut
        /\ Becomes(w, Idle)
    BY DEF provider, Drop, Becomes
  <1>4. /\ call' \in [Worker -> Call \cup {Idle}] /\ call'[w] = Idle
        /\ \A v \in Worker \ {w} : call'[v] = call[v]
        /\ \A v \in Worker : CallOK(call'[v], issued', current')
        /\ \A v \in Worker : LoginHasIDToken(call'[v])
    <2>1. CallOK(Idle, issued', current') /\ LoginHasIDToken(Idle)
      BY <1>2 DEF CallOK, LoginHasIDToken
    <2> QED
      BY <1>1, <1>2, <1>3, <2>1, CallsStep
  <1>5. TypeOK'
    <2>1. Unstored(w) \subseteq 1 .. issued
      BY <1>1, <1>2, CallIs, UnstoredIs
    <2> QED
      BY <1>1, <1>3, <1>4, <2>1 DEF TypeOK, LoginHasIDToken
  <1>6. Solo'
    BY <1>1, <1>4, SoloStep
  <1>7. InFlight \cup lost = InFlight' \cup lost' /\ Apart'
    <2>1. Unstored(w)' = {}
      BY <1>2, <1>4 DEF Unstored
    <2> QED
      BY <1>1, <1>3, <1>4, <2>1, OthersStay, InFlightIs, ApartStep
  <1>9. RowOK(store, signedOut, issued)' /\ Places'
    BY <1>1, <1>2, <1>3, <1>4 DEF RowOK, Places, Placed
  <1>8. NothingLiveIsForgotten' /\ NewestIsNear'
    BY <1>1, <1>3, <1>7 DEF NothingLiveIsForgotten, NewestIsNear
  <1> QED
    BY <1>4, <1>5, <1>6, <1>7, <1>8, <1>9 DEF CustodyInv

(* What a call returns is a token set. *)
LEMMA ResultIs ==
  ASSUME TypeOK, NEW c \in Call, c.answer \in Answer, AcceptsIDToken(c)
  PROVE  /\ Result(c) \in TokenSet /\ Result(c).refresh = Retained(c)
         /\ c.request.op = "login" => Result(c).idToken
  <1>1. /\ c.answer.at \in 0 .. Horizon /\ c.answer.expiresIn \in Lifetime
        /\ c.answer.refresh \in RefreshToken /\ c.answer.scope \in BOOLEAN
    BY DEF Answer
  <1>2. c.request.refresh \in RefreshToken
    BY DEF Call, Request
  <1>3. Retained(c) \in RefreshToken
    BY <1>1, <1>2 DEF Retained
  <1>4. ExpiresAt(c) \in Int \cup {None}
    <2>1. clock \in Int /\ c.answer.expiresIn \in Int
      <3>1. clock \in 0 .. Horizon
        BY DEF TypeOK
      <3>2. Lifetime \subseteq Int
        BY CustodyAssumption
      <3>3. c.answer.expiresIn \in Int
        BY <1>1, <3>2, Zenon
      <3> QED
        BY <3>1, <3>3
    <2>2. Duration(c.answer.expiresIn) \in Int
      <3>1. Limit \in Int /\ 2 * Limit > 0
        BY CustodyAssumption
      <3> QED
        BY <2>1, <3>1 DEF Duration
    <2> QED
      BY <2>1, <2>2 DEF ExpiresAt
  <1>5. Result(c) \in TokenSet
    BY <1>1, <1>3, <1>4 DEF Result, TokenSet
  <1>6. c.request.op = "login" => c.answer.content = "valid"
    BY DEF AcceptsIDToken
  <1> QED
    BY <1>5, <1>6 DEF Result

(* A call begins: a login with nothing there, or what the row allows. *)
LEMMA SendStep ==
  ASSUME CustodyInv, NEW w \in Worker, NEW op \in Operation,
         NEW refresh \in 0 .. issued, Send(w, op, refresh),
         op = "login" <=> refresh = 0,
         IF op = "login"
         THEN /\ \A v \in Worker : call[v].phase = "idle"
              /\ issued = 0 /\ store = None /\ late = {}
         ELSE store # None /\ store.refresh = refresh
  PROVE  CustodyInv'
  <1> DEFINE c == [Idle EXCEPT !.phase = "asking", !.started = clock,
                               !.request = [op |-> op, refresh |-> refresh],
                               !.deadline = clock + Timeout]
  <1>1. /\ TypeOK /\ Solo /\ NothingLiveIsForgotten /\ NewestIsNear
        /\ RowOK(store, signedOut, issued) /\ Places /\ Apart
        /\ \A v \in Worker : CallOK(call[v], issued, current)
    BY DEF CustodyInv
  <1>2. issued \in Nat /\ current \in Nat
    BY <1>1, CallIs
  <1>3. /\ issued' = issued /\ current' = current /\ store' = store /\ late' = late
        /\ lost' = lost /\ clock' = clock /\ signedOut' = signedOut
        /\ call[w].phase = "idle" /\ Becomes(w, c)
    BY DEF provider, Send, Becomes
  <1>4. /\ c.phase = "asking" /\ c.answer = None
        /\ c.request.op = op /\ c.request.refresh = refresh
    BY DEF Idle
  <1>5. c \in Call
    <2>1. refresh \in RefreshToken
      BY <1>1, <1>2, CustodyAssumption DEF TypeOK, RefreshToken
    <2>2. [op |-> op, refresh |-> refresh] \in Request
      BY <2>1 DEF Request
    <2> QED
      BY <1>1, <2>2, Deadlines DEF Call, Idle
  <1>6. CallOK(c, issued', current') /\ LoginHasIDToken(c)
    BY <1>3, <1>4 DEF CallOK, LoginHasIDToken
  <1> HIDE DEF c
  <1>7. /\ call' \in [Worker -> Call \cup {Idle}] /\ call'[w] = c
        /\ \A v \in Worker \ {w} : call'[v] = call[v]
        /\ \A v \in Worker : CallOK(call'[v], issued', current')
        /\ \A v \in Worker : LoginHasIDToken(call'[v])
    BY <1>1, <1>2, <1>3, <1>5, <1>6, CallsStep
  <1>8. TypeOK'
    BY <1>1, <1>3, <1>7 DEF TypeOK, LoginHasIDToken
  <1>9. Solo'
    <2>1. CASE op = "login"
      <3>1. \A v \in Worker : call[v] = Idle /\ call[v].phase = "idle"
        BY <1>1, <2>1, CallIs
      <3>2. signedOut = 0
        BY <1>1, <2>1 DEF TypeOK
      <3> QED
        BY <1>3, <1>4, <1>7, <2>1, <3>1, <3>2 DEF Solo
    <2>2. CASE op # "login"
      <3>1. \A v \in Worker : ~(call[v].phase # "idle" /\ call[v].request.op = "login")
        BY <1>1, <2>2 DEF Solo
      <3>2. \A v \in Worker : ~(call'[v].phase # "idle" /\ call'[v].request.op = "login")
        BY <1>4, <1>7, <2>2, <3>1
      <3> QED
        BY <3>2 DEF Solo
    <2> QED
      BY <2>1, <2>2
  <1>10. InFlight' = InFlight /\ Apart'
    <2>1. Unstored(w) = {} /\ Unstored(w)' = {}
      BY <1>1, <1>3, <1>4, <1>7, CallIs DEF Unstored
    <2> QED
      BY <1>1, <1>7, <2>1, OthersStay, InFlightIs, ApartStep
  <1>11. NothingLiveIsForgotten' /\ NewestIsNear'
    BY <1>1, <1>3, <1>10 DEF NothingLiveIsForgotten, NewestIsNear
  <1>12. RowOK(store, signedOut, issued)' /\ Places'
    BY <1>1, <1>3, <1>4, <1>7 DEF RowOK, Places, Placed
  <1> QED
    BY <1>7, <1>8, <1>9, <1>10, <1>11, <1>12 DEF CustodyInv

(* The provider leaves its tokens as they are, ends the one it honours, or   *)
(* issues the next one, which comes with the answer.                        *)
Kept(r, a) ==
  /\ a.refresh = 0 /\ issued' = issued /\ current' \in {current, 0}
  /\ (r.op = "revoke" /\ Revoked(a)) => current' # r.refresh

IssuedWith(r, a) ==
  /\ r.op # "revoke" /\ issued' \in RefreshToken
  /\ r.op # "login" => r.refresh = issued
  /\ a.refresh = issued' /\ issued' = issued + 1 /\ current' = issued'

(* A request is answered. *)
LEMMA AnswerStep ==
  ASSUME CustodyInv, NEW w \in Worker, call[w].phase = "asking",
         NEW a \in Answer, Answered(w, a),
         UNCHANGED <<clock, store, late, lost, signedOut>>,
         Kept(call[w].request, a) \/ IssuedWith(call[w].request, a)
  PROVE  CustodyInv'
  <1> DEFINE c == [call[w] EXCEPT !.phase = "answered", !.answer = a]
  <1>1. /\ TypeOK /\ Solo /\ NothingLiveIsForgotten /\ NewestIsNear
        /\ RowOK(store, signedOut, issued) /\ Places /\ Apart
        /\ \A v \in Worker : CallOK(call[v], issued, current)
    BY DEF CustodyInv
  <1>2. /\ issued \in Nat /\ current \in Nat /\ current \in {0, issued}
        /\ call[w] \in Call /\ a.refresh \in Nat /\ a # None
    BY <1>1, CallIs, AnswerIs, NoneAssumption
  <1>3. /\ store' = store /\ late' = late /\ lost' = lost /\ clock' = clock
        /\ signedOut' = signedOut /\ Becomes(w, c)
    BY DEF Answered, Becomes
  <1>4. /\ c \in Call /\ c.phase = "answered" /\ c.answer = a
        /\ c.request = call[w].request
    BY <1>2 DEF Call
  <1>5. /\ issued' \in Nat /\ current' \in Nat /\ issued <= issued'
        /\ current' \in {current, 0} \/ issued < current'
        /\ issued' \in RefreshToken /\ current' \in {0, issued'}
        /\ a.refresh <= issued'
    BY <1>1, <1>2 DEF TypeOK, Kept, IssuedWith
  <1>6. CallOK(c, issued', current') /\ LoginHasIDToken(c)
    <2>1. /\ call[w].request.refresh \in 0 .. issued
          /\ call[w].request.op = "login" <=> call[w].request.refresh = 0
          /\ call[w].answer = None
      BY <1>1 DEF CallOK
    <2>6. call[w].request.op = "login" => issued = 0
      BY <1>1, <2>1 DEF Solo
    <2>2. a.refresh # 0 => a.refresh = call[w].request.refresh + 1
      BY <1>2, <2>1, <2>6 DEF Kept, IssuedWith
    <2>3. call[w].request.op = "revoke" =>
            a.refresh = 0 /\ (Revoked(a) => current' # call[w].request.refresh)
      BY DEF Kept, IssuedWith
    <2>4. call[w].request.refresh \in 0 .. issued'
      BY <1>2, <1>5, <2>1
    <2> HIDE DEF c
    <2>5. LoginHasIDToken(c)
      BY <1>4 DEF LoginHasIDToken
    <2> QED
      BY <1>4, <1>5, <2>1, <2>2, <2>3, <2>4, <2>5 DEF CallOK
  <1> HIDE DEF c
  <1>7. /\ call' \in [Worker -> Call \cup {Idle}] /\ call'[w] = c
        /\ \A v \in Worker \ {w} : call'[v] = call[v]
        /\ \A v \in Worker : CallOK(call'[v], issued', current')
        /\ \A v \in Worker : LoginHasIDToken(call'[v])
    BY <1>1, <1>2, <1>3, <1>4, <1>5, <1>6, CallsStep
  <1>8. TypeOK'
    <2>1. lost \subseteq 1 .. issued' /\ signedOut \in 0 .. issued'
      BY <1>1, <1>2, <1>5 DEF TypeOK
    <2> QED
      BY <1>1, <1>3, <1>5, <1>7, <2>1 DEF TypeOK, LoginHasIDToken
  <1>9. Solo'
    <2>1. call[w].answer = None
      BY <1>1 DEF CallOK
    <2>2. call[w].request.op = "login" =>
            store = None /\ late = {} /\ signedOut = 0 /\ issued = 0
      BY <1>1, <2>1 DEF Solo
    <2>3. call[w].request.op = "login" =>
            issued' = IF call'[w].answer = None THEN 0 ELSE call'[w].answer.refresh
      BY <1>2, <1>4, <1>7, <2>2 DEF Kept, IssuedWith
    <2> QED
      BY <1>1, <1>3, <1>4, <1>7, <2>2, <2>3, SoloStep
  <1>10. InFlight' = InFlight \cup ({a.refresh} \ {0}) /\ Apart'
    <2>1. Unstored(w) = {}
      BY <1>1 DEF CallOK, Unstored
    <2>2. Unstored(w)' = {a.refresh} \ {0}
      BY <1>2, <1>4, <1>7 DEF Unstored
    <2>3. \A v \in Worker : Unstored(v) \subseteq 1 .. issued
      BY <1>1, <1>2, CallIs, UnstoredIs
    <2>4. a.refresh # 0 => a.refresh > issued
      BY <1>2 DEF Kept, IssuedWith
    <2>5. Unstored(w)' \cap Others(w) = {}
      BY <1>2, <2>2, <2>3, <2>4 DEF Others
    <2> QED
      BY <1>1, <1>7, <2>1, <2>2, <2>5, OthersStay, InFlightIs, ApartStep
  <1>11. /\ NothingLiveIsForgotten' /\ NewestIsNear'
         /\ store' # None => store'.refresh <= issued'
    <2>1. CASE Kept(call[w].request, a)
      <3>1. store # None => store.refresh <= issued'
        BY <1>1, <2>1 DEF Kept, RowOK
      <3> QED
        BY <1>1, <1>3, <1>10, <2>1, <3>1 DEF Kept, NothingLiveIsForgotten, NewestIsNear
    <2>2. CASE IssuedWith(call[w].request, a)
      <3>1. issued' \in InFlight' /\ current' = issued'
        BY <1>2, <1>10, <2>2 DEF IssuedWith
      <3>2. store # None => store.refresh <= issued'
        BY <1>1, <1>2, <1>5, RowIs DEF RowOK
      <3> QED
        BY <1>3, <3>1, <3>2 DEF NothingLiveIsForgotten, NewestIsNear
    <2> QED
      BY <2>1, <2>2
  <1>12. RowOK(store, signedOut, issued)'
    BY <1>1, <1>3, <1>11 DEF RowOK
  <1>13. Places'
    <2>1. ASSUME NEW v \in Worker \ {w}
          PROVE  Placed(call'[v], store', signedOut', issued')
      <3>1. call[v].phase # "idle" => call[v].request.refresh \in 0 .. issued
        BY <1>1 DEF CallOK
      <3> QED
        BY <1>1, <1>2, <1>3, <1>5, <1>7, <3>1 DEF Places, Placed
    <2>2. Placed(call'[w], store', signedOut', issued')
      <3> SUFFICES ASSUME call[w].request.op = "refresh"
                   PROVE  Placed(c, store, signedOut, issued')
        BY <1>3, <1>4, <1>7 DEF Placed
      <3>1. call[w].request.refresh \in 0 .. issued /\ call[w].request.refresh \in Int
        BY <1>1 DEF CallOK
      <3>2. CASE call[w].request.refresh < issued
        <4>1. Kept(call[w].request, a)
          BY <1>2, <3>1, <3>2 DEF IssuedWith
        <4> QED
          BY <1>2, <1>4, <3>2, <4>1 DEF Kept, Placed
      <3>3. CASE ~(call[w].request.refresh < issued)
        BY <1>1, <1>4, <3>3 DEF Places, Placed
      <3> QED
        BY <3>2, <3>3
    <2> QED
      BY <2>1, <2>2 DEF Places
  <1> QED
    BY <1>7, <1>8, <1>9, <1>10, <1>11, <1>12, <1>13 DEF CustodyInv

(* A call ends without a failure, and the row may change with it. *)
LEMMA EndStep ==
  ASSUME CustodyInv, NEW w \in Worker, call[w].phase # "idle", Becomes(w, Idle),
         UNCHANGED <<clock, provider, late, lost>>,
         store' \in TokenSet \cup {None}, signedOut' \in 0 .. issued,
         RowOK(store', signedOut', issued),
         \A v \in Worker \ {w} : Placed(call[v], store', signedOut', issued),
         current # 0 =>
           \/ store' # None /\ store'.refresh = current
           \/ current \in Others(w) \cup lost
           \/ signedOut' # 0 /\ current = signedOut' + 1,
         (store' # None /\ store'.refresh # 0 /\ lost = {}) =>
           store'.refresh = issued \/ issued \in Others(w)
  PROVE  CustodyInv'
  <1>1. /\ TypeOK /\ Solo /\ Apart
        /\ \A v \in Worker : CallOK(call[v], issued, current)
    BY DEF CustodyInv
  <1>2. issued \in Nat /\ current \in Nat /\ Idle.phase = "idle" /\ Idle.answer = None
    BY <1>1, CallIs
  <1>3. /\ issued' = issued /\ current' = current /\ late' = late
        /\ lost' = lost /\ clock' = clock
    BY DEF provider
  <1>4. CallOK(Idle, issued', current') /\ LoginHasIDToken(Idle)
    BY <1>2 DEF CallOK, LoginHasIDToken
  <1>5. /\ call' \in [Worker -> Call \cup {Idle}] /\ call'[w] = Idle
        /\ \A v \in Worker \ {w} : call'[v] = call[v]
        /\ \A v \in Worker : CallOK(call'[v], issued', current')
        /\ \A v \in Worker : LoginHasIDToken(call'[v])
    BY <1>1, <1>2, <1>3, <1>4, CallsStep
  <1>6. TypeOK'
    BY <1>1, <1>3, <1>5 DEF TypeOK, LoginHasIDToken
  <1>7. Solo'
    BY <1>1, <1>5, SoloStep
  <1>8. InFlight' = Others(w) /\ Apart'
    <2>1. Unstored(w)' = {}
      BY <1>2, <1>5 DEF Unstored
    <2> QED
      BY <1>1, <1>5, <2>1, OthersStay, InFlightIs, ApartStep
  <1>9. NothingLiveIsForgotten' /\ NewestIsNear'
    BY <1>3, <1>8 DEF NothingLiveIsForgotten, NewestIsNear
  <1>10. RowOK(store, signedOut, issued)' /\ Places'
    BY <1>2, <1>3, <1>5 DEF RowOK, Places, Placed
  <1> QED
    BY <1>5, <1>6, <1>7, <1>8, <1>9, <1>10 DEF CustodyInv

(* The invariant holds at the start and after every step. *)
THEOREM CustodyInductive == Spec => []CustodyInv
  <1>1. Init => CustodyInv
    <2> SUFFICES ASSUME Init PROVE CustodyInv
      OBVIOUS
    <2>1. TypeOK
      BY CustodyAssumption DEF Init, TypeOK, Idle, RefreshToken
    <2>2. \A w \in Worker : call[w] = Idle /\ call[w].phase = "idle"
      BY DEF Init, Idle
    <2> QED
      BY <2>1, <2>2 DEF Init, CustodyInv, CallOK, Solo, NothingLiveIsForgotten,
         NewestIsNear, RowOK, Places, Placed, Apart, Unstored, Idle
  <1>2. CustodyInv /\ [Next]_vars => CustodyInv'
    <2> SUFFICES ASSUME CustodyInv, [Next]_vars PROVE CustodyInv'
      OBVIOUS
    <2>1. /\ TypeOK /\ Solo /\ NothingLiveIsForgotten /\ NewestIsNear
          /\ RowOK(store, signedOut, issued) /\ Places /\ Apart
          /\ \A w \in Worker : CallOK(call[w], issued, current)
      BY DEF CustodyInv
    <2> DEFINE Tokens == issued \in Nat /\ current \in {0, issued} /\ current \in Nat
    <2>0. Tokens
      BY <2>1, CustodyAssumption DEF TypeOK, RefreshToken
    <2>2. ASSUME NEW w \in Worker, Login(w) PROVE CustodyInv'
      <3>1. 0 \in 0 .. issued /\ "login" \in Operation
        BY <2>0 DEF Operation
      <3> QED
        BY <2>2, <3>1, SendStep DEF Login
    <2>3. ASSUME NEW w \in Worker, Refresh(w) PROVE CustodyInv'
      <3>1. store.refresh \in 0 .. issued /\ "refresh" \in Operation
        BY <2>0, <2>1, <2>3, RowIs DEF Refresh, Operation, RowOK
      <3> QED
        BY <2>3, <3>1, SendStep DEF Refresh
    <2>4. ASSUME NEW w \in Worker, Revoke(w) PROVE CustodyInv'
      <3>1. store.refresh \in 0 .. issued /\ "revoke" \in Operation
        BY <2>0, <2>1, <2>4, RowIs DEF Revoke, Operation, RowOK
      <3> QED
        BY <2>4, <3>1, SendStep DEF Revoke
    <2>5. ASSUME NEW w \in Worker, Receive(w) PROVE CustodyInv'
      <3>1. /\ call[w] \in Call /\ call[w].answer \in Answer
            /\ CallOK(call[w], issued, current)
        BY <2>1, <2>5, CallIs DEF Receive, CallOK
      <3>2. CASE call[w].answer.content # "unusable"
        <4> DEFINE c == [call[w] EXCEPT !.phase = "verifying",
                                        !.deadline =
                                          clock + Stops(call[w].request.op) * Timeout]
        <4>1. Becomes(w, c)
          BY <2>5, <3>2 DEF Receive, Becomes
        <4>2. /\ c \in Call /\ c.phase = "verifying" /\ c.request = call[w].request
              /\ c.answer = call[w].answer
          BY <2>1, <3>1, Deadlines DEF Call
        <4>4. LoginHasIDToken(c)
          BY <4>2 DEF LoginHasIDToken
        <4>3. CallOK(c, issued, current)
          BY <2>5, <3>1, <4>2 DEF Receive, CallOK
        <4> HIDE DEF c
        <4> QED
          BY <2>5, <3>2, <4>1, <4>2, <4>3, <4>4, QuietStep DEF Receive
      <3>3. CASE call[w].answer.content = "unusable"
        BY <2>1, <2>5, <3>3, DropStep DEF Receive, TypeOK
      <3> QED
        BY <3>2, <3>3
    <2>6. ASSUME NEW w \in Worker, Return(w) PROVE CustodyInv'
      <3>1. /\ call[w] \in Call /\ call[w].answer \in Answer
            /\ CallOK(call[w], issued, current)
        BY <2>1, <2>6, CallIs DEF Return, CallOK
      <3>2. CASE AcceptsIDToken(call[w])
        <4> DEFINE c == [call[w] EXCEPT !.phase = "returned", !.deadline = Horizon,
                                        !.result = Result(call[w])]
        <4>1. Becomes(w, c)
          BY <2>6, <3>2 DEF Return, Becomes
        <4>2. /\ Result(call[w]) \in TokenSet
              /\ Result(call[w]).refresh = Retained(call[w])
              /\ call[w].request.op = "login" => Result(call[w]).idToken
          BY <2>1, <3>1, <3>2, ResultIs
        <4>3. /\ c \in Call /\ c.phase = "returned" /\ c.request = call[w].request
              /\ c.answer = call[w].answer /\ c.result = Result(call[w])
          BY <2>1, <3>1, <4>2, Deadlines DEF Call
        <4>4. CallOK(c, issued, current)
          BY <2>6, <3>1, <4>2, <4>3 DEF Return, CallOK, Retained
        <4>5. LoginHasIDToken(c)
          BY <4>2, <4>3 DEF LoginHasIDToken
        <4> HIDE DEF c
        <4> QED
          BY <2>6, <3>2, <4>1, <4>2, <4>3, <4>4, <4>5, QuietStep DEF Return
      <3>3. CASE ~AcceptsIDToken(call[w])
        BY <2>1, <2>6, <3>3, DropStep DEF Return, TypeOK
      <3> QED
        BY <3>2, <3>3
    <2>7. ASSUME NEW w \in Worker, Abandon(w) PROVE CustodyInv'
      <3>1. call[w].phase = "asking" => call[w].request \in Request
        BY <2>1, CallIs DEF Call
      <3>2. late' \subseteq Request
        BY <2>1, <2>7, <3>1 DEF Abandon, TypeOK
      <3> QED
        BY <2>7, <3>2, DropStep DEF Abandon
    <2>8. ASSUME NEW w \in Worker, Store(w) PROVE CustodyInv'
      <3> DEFINE old == IF store = None THEN 0 ELSE store.refresh
                 presented == call[w].request.refresh
                 got == call[w].answer.refresh
      <3>1. /\ call[w].phase = "returned" /\ call[w].phase # "idle"
            /\ CallOK(call[w], issued, current)
        BY <2>1, <2>8 DEF Store
      <3>2. /\ Becomes(w, Idle) /\ UNCHANGED <<clock, provider, late, lost, signedOut>>
            /\ store' = IF old = presented THEN call[w].result ELSE store
        BY <2>8 DEF Store, Becomes
      <3>3. /\ call[w].answer \in Answer /\ got \in Nat /\ got <= issued
            /\ presented \in 0 .. issued
            /\ got # 0 => got = presented + 1
            /\ call[w].request.op = "login" <=> presented = 0
            /\ call[w].request.op # "revoke"
        BY <3>1, AnswerIs DEF CallOK
      <3>4. call[w].request.op \in Operation
        BY <2>1, <3>1, CallIs DEF Call, Request
      <3>5. Unstored(w) = {got} \ {0}
        BY <3>3, NoneAssumption DEF Unstored
      <3>6. InFlight = Others(w) \cup ({got} \ {0})
        BY <3>5, InFlightIs
      <3>7. presented = 0 =>
              /\ store = None /\ issued = got /\ signedOut = 0
              /\ \A v \in Worker \ {w} : call[v] = Idle
        BY <2>1, <3>1, <3>3, NoneAssumption DEF Solo
      <3>8. signedOut' = signedOut /\ signedOut \in 0 .. issued
        BY <2>1, <3>2 DEF TypeOK
      <3>9. CASE old # presented
        <4>1. store' = store
          BY <3>2, <3>9
        <4>2. got # 0 => store = None /\ signedOut = presented /\ presented # 0
          <5>1. call[w].request.op = "refresh" /\ presented # 0
            BY <3>3, <3>4, <3>7, <3>9 DEF Operation
          <5>2. Placed(call[w], store, signedOut, issued)
            BY <2>1 DEF Places
          <5> QED
            BY <3>1, <3>3, <3>9, <5>1, <5>2, NoneAssumption DEF Placed
        <4>3. current # 0 =>
                \/ store # None /\ store.refresh = current
                \/ current \in Others(w) \cup lost
                \/ signedOut # 0 /\ current = signedOut + 1
          BY <2>1, <3>3, <3>6, <4>2 DEF NothingLiveIsForgotten
        <4>4. (store # None /\ store.refresh # 0 /\ lost = {}) =>
                store.refresh = issued \/ issued \in Others(w)
          BY <2>1, <3>6, <4>2 DEF NewestIsNear
        <4>5. store' \in TokenSet \cup {None} /\ RowOK(store', signedOut', issued)
          BY <2>1, <3>8, <4>1 DEF TypeOK
        <4>6. \A v \in Worker \ {w} : Placed(call[v], store', signedOut', issued)
          BY <2>1, <3>8, <4>1 DEF Places
        <4> HIDE DEF old, presented, got
        <4> QED
          BY <3>1, <3>2, <3>8, <4>1, <4>3, <4>4, <4>5, <4>6, EndStep
      <3>10. CASE old = presented
        <4>1. store' = call[w].result
          BY <3>2, <3>10
        <4>2. store' \in TokenSet /\ store'.refresh = Retained(call[w])
          BY <3>1, <4>1 DEF CallOK
        <4>3. store'.refresh = IF got = 0 THEN presented ELSE got
          BY <3>3, <3>4, <4>2 DEF Retained, Operation
        <4>4. store' # None /\ store'.refresh <= issued
          BY <2>0, <3>3, <4>2, <4>3, NoneAssumption
        <4>5. signedOut = 0
          BY <2>1, <3>7, <3>10 DEF RowOK
        <4>6. RowOK(store', signedOut', issued)
          BY <3>8, <4>4, <4>5 DEF RowOK
        <4>7. ASSUME NEW v \in Worker \ {w}, call[v].phase # "idle",
                     call[v].request.op = "refresh"
              PROVE  Placed(call[v], store', signedOut', issued)
          <5> DEFINE p == call[v].request.refresh
          <5>1. presented # 0
            BY <3>7, <4>7 DEF Idle
          <5>2. store # None /\ store.refresh = presented
            BY <3>10, <5>1
          <5>3. CallOK(call[v], issued, current) /\ call[v].phase # "idle"
            BY <2>1, <4>7
          <5>4. p \in 0 .. issued
            BY <5>3 DEF CallOK
          <5>5. CASE p < issued /\ (call[v].answer = None \/ call[v].answer.refresh = 0)
            BY <5>5 DEF Placed
          <5>6. CASE p = presented /\ got = 0
            BY <4>3, <4>4, <5>6 DEF Placed
          <5>7. CASE p = presented /\ got # 0
            <6>1. call[v].answer # None =>
                    call[v].answer.refresh = 0 \/ call[v].answer.refresh = p + 1
              <7>1. CASE call[v].phase = "asking"
                BY <5>3, <7>1 DEF CallOK
              <7>2. CASE call[v].phase # "asking"
                BY <5>3, <7>2 DEF CallOK
              <7> QED
                BY <7>1, <7>2
            <6>2. got \notin Unstored(v)
              BY <2>1, <3>5, <5>7 DEF Apart
            <6>3. call[v].answer = None \/ call[v].answer.refresh = 0
              BY <3>3, <5>7, <6>1, <6>2 DEF Unstored
            <6>4. p < issued
              BY <2>0, <3>3, <5>4, <5>7
            <6> QED
              BY <6>3, <6>4 DEF Placed
          <5>8. Placed(call[v], store, signedOut, issued)
            BY <2>1 DEF Places
          <5> QED
            BY <4>7, <5>2, <5>5, <5>6, <5>7, <5>8 DEF Placed
        <4>8. \A v \in Worker \ {w} : Placed(call[v], store', signedOut', issued)
          BY <4>7 DEF Placed
        <4>9. current # 0 =>
                 store'.refresh = current \/ current \in Others(w) \cup lost
          <5>1. CASE store # None /\ store.refresh = current /\ current # 0
            BY <2>0, <3>3, <3>10, <4>3, <5>1
          <5>2. CASE current \in InFlight \cup lost
            BY <3>6, <4>3, <5>2
          <5> QED
            BY <2>1, <4>5, <5>1, <5>2 DEF NothingLiveIsForgotten
        <4>10. (store'.refresh # 0 /\ lost = {}) =>
                 store'.refresh = issued \/ issued \in Others(w)
          <5>1. CASE presented = 0
            BY <3>3, <3>7, <4>3, <5>1
          <5>2. CASE presented # 0 /\ lost = {}
            <6>1. store.refresh = presented
              BY <3>10, <5>2
            <6>2. presented = issued \/ issued \in InFlight
              BY <2>1, <3>10, <5>2, <6>1 DEF NewestIsNear
            <6> QED
              BY <2>0, <3>3, <3>6, <4>3, <6>2
          <5> QED
            BY <5>1, <5>2
        <4> HIDE DEF old, presented, got
        <4> QED
          BY <3>1, <3>2, <3>8, <4>2, <4>4, <4>6, <4>8, <4>9, <4>10, EndStep
      <3> QED
        BY <3>9, <3>10
    <2>9. ASSUME NEW w \in Worker, SignOut(w) PROVE CustodyInv'
      <3>1. /\ call[w].phase # "idle" /\ Becomes(w, Idle)
            /\ UNCHANGED <<clock, provider, late, lost>>
        BY <2>9 DEF SignOut, Becomes
      <3>2. /\ call[w].answer \in Answer /\ call[w].answer.refresh = 0
            /\ Revoked(call[w].answer) => current # call[w].request.refresh
        BY <2>1, <2>9 DEF SignOut, CallOK
      <3>3. InFlight = Others(w)
        <4>1. Unstored(w) = {}
          BY <3>2 DEF Unstored
        <4> QED
          BY <4>1, InFlightIs
      <3>4. CASE ~Empties(w)
        <4>1. store' = store /\ signedOut' = signedOut
          BY <2>9, <3>4 DEF SignOut
        <4>2. /\ store' \in TokenSet \cup {None} /\ signedOut' \in 0 .. issued
              /\ RowOK(store', signedOut', issued)
              /\ \A v \in Worker \ {w} : Placed(call[v], store', signedOut', issued)
          BY <2>1, <4>1 DEF TypeOK, Places
        <4>3. /\ current # 0 =>
                   \/ store' # None /\ store'.refresh = current
                   \/ current \in Others(w) \cup lost
                   \/ signedOut' # 0 /\ current = signedOut' + 1
              /\ (store' # None /\ store'.refresh # 0 /\ lost = {}) =>
                   store'.refresh = issued \/ issued \in Others(w)
          BY <2>1, <3>3, <4>1 DEF NothingLiveIsForgotten, NewestIsNear
        <4> QED
          BY <3>1, <4>2, <4>3, EndStep
      <3>5. CASE Empties(w)
        <4>1. /\ store' = None /\ signedOut' = call[w].request.refresh
              /\ store # None /\ store.refresh = call[w].request.refresh
              /\ current # call[w].request.refresh
          BY <2>9, <3>2, <3>5 DEF SignOut, Empties
        <4>2. call[w].request.refresh \in 0 .. issued
          BY <2>1, <3>1 DEF CallOK
        <4>3. signedOut = 0
          BY <2>1, <4>1 DEF RowOK
        <4>4. ASSUME NEW v \in Worker \ {w}
              PROVE  Placed(call[v], store', signedOut', issued)
          BY <2>1, <4>1 DEF Places, Placed
        <4>5. current # 0 => current \in Others(w) \cup lost
          BY <2>1, <3>3, <4>1, <4>3 DEF NothingLiveIsForgotten
        <4>6. /\ store' \in TokenSet \cup {None} /\ signedOut' \in 0 .. issued
              /\ RowOK(store', signedOut', issued)
          BY <4>1, <4>2 DEF RowOK
        <4> QED
          BY <3>1, <4>1, <4>4, <4>5, <4>6, EndStep
      <3> QED
        BY <3>4, <3>5
    <2>10. ASSUME NEW w \in Worker, Execute(w) PROVE CustodyInv'
      <3> DEFINE r == call[w].request
      <3>1. /\ call[w].phase = "asking" /\ call[w].phase # "idle"
            /\ UNCHANGED <<clock, store, late, lost, signedOut>>
        BY <2>10 DEF Execute
      <3>2. ASSUME NEW a \in Answer, Issues(r, a.refresh # 0),
                   a.refresh \in {0, issued'}, Answered(w, a)
            PROVE  CustodyInv'
        <4>1. CASE a.refresh # 0
          <5>1. issued' \in RefreshToken
            BY <2>0, <3>2, <4>1, CustodyAssumption DEF Issues, RefreshToken
          <5>2. r.op # "login" => r.refresh = issued
            BY <2>0, <3>2 DEF Issues, Honoured
          <5>3. IssuedWith(r, a)
            BY <3>2, <4>1, <5>1, <5>2 DEF Issues, IssuedWith
          <5> QED
            BY <3>1, <3>2, <5>3, AnswerStep
        <4>2. CASE a.refresh = 0
          <5>1. Kept(r, a)
            BY <3>2, <4>2 DEF Issues, Kept, provider
          <5> QED
            BY <3>1, <3>2, <5>1, AnswerStep
        <4> QED
          BY <4>1, <4>2
      <3>3. ASSUME Revokes(r), Answered(w, Plain("no ID token"))
            PROVE  CustodyInv'
        <4>1. Plain("no ID token") \in Answer /\ Plain("no ID token").refresh = 0
          BY <2>1, PlainIs
        <4>2. r.op = "revoke" => r.refresh # 0
          BY <2>1, <3>1 DEF CallOK
        <4>3. Kept(r, Plain("no ID token"))
          BY <3>3, <4>1, <4>2 DEF Revokes, Honoured, Kept
        <4> QED
          BY <3>1, <3>3, <4>1, <4>3, AnswerStep
      <3> QED
        BY <2>10, <3>2, <3>3 DEF Execute
    <2>11. ASSUME NEW w \in Worker, Refuse(w) PROVE CustodyInv'
      <3>1. /\ Plain("unusable") \in Answer /\ Plain("unusable").refresh = 0
            /\ Plain("unusable").content = "unusable"
        BY <2>1, PlainIs DEF Plain
      <3>2. Kept(call[w].request, Plain("unusable"))
        BY <2>11, <3>1 DEF Refuse, Kept, Revoked, provider
      <3> QED
        BY <2>11, <3>1, <3>2, AnswerStep DEF Refuse
    <2>12. ASSUME NEW r \in late, ExecuteLate(r) PROVE CustodyInv'
      <3>1. /\ call' = call /\ store' = store /\ clock' = clock /\ late' \subseteq Request
            /\ signedOut' = signedOut
        BY <2>1, <2>12 DEF ExecuteLate, TypeOK
      <3>2. \/ /\ issued' = issued /\ current' \in {current, 0} /\ lost' = lost
            \/ /\ issued' = issued + 1 /\ issued < MaxToken
               /\ current' = issued' /\ lost' = lost \cup {issued'}
        BY <2>12 DEF ExecuteLate, Issues, Revokes, provider
      <3>3. /\ issued' \in Nat /\ current' \in Nat /\ issued <= issued'
            /\ current' \in {current, 0} \/ issued < current'
            /\ issued' \in RefreshToken /\ current' \in {0, issued'}
            /\ lost' \subseteq 1 .. issued' /\ signedOut' \in 0 .. issued'
        <4>1. issued \in 0 .. MaxToken /\ lost \subseteq 1 .. issued /\ MaxToken \in Nat
          BY <2>1, CustodyAssumption DEF TypeOK, RefreshToken
        <4>4. signedOut' \in 0 .. issued'
          BY <2>0, <2>1, <3>1, <3>2 DEF TypeOK
        <4>2. CASE issued' = issued /\ current' \in {current, 0} /\ lost' = lost
          BY <2>0, <4>1, <4>2, <4>4 DEF RefreshToken
        <4>3. CASE /\ issued' = issued + 1 /\ issued < MaxToken
                   /\ current' = issued' /\ lost' = lost \cup {issued'}
          <5>1. issued' \in 1 .. MaxToken /\ issued < issued'
            BY <4>1, <4>3
          <5>2. lost' \subseteq 1 .. issued'
            BY <4>1, <4>3, <5>1
          <5> QED
            BY <4>1, <4>3, <4>4, <5>1, <5>2, <2>0 DEF RefreshToken
        <4> QED
          BY <3>2, <4>2, <4>3
      <3>4. TypeOK'
        BY <2>1, <3>1, <3>3 DEF TypeOK
      <3>5. \A w \in Worker : CallOK(call'[w], issued', current')
        BY <2>0, <2>1, <3>1, <3>3, CallStays DEF TypeOK
      <3>6. Solo'
        <4>1. \A w \in Worker : ~(call[w].phase # "idle" /\ call[w].request.op = "login")
          BY <2>1 DEF Solo
        <4> QED
          BY <3>1, <4>1 DEF Solo
      <3>7. InFlight' = InFlight /\ Apart'
        BY <2>1, <3>1 DEF InFlight, Unstored, Apart
      <3>8. RowOK(store', signedOut', issued')
        BY <2>0, <2>1, <3>1, <3>3, RowIs DEF RowOK
      <3>10. Places'
        <4>1. ASSUME NEW w \in Worker, call[w].phase # "idle"
              PROVE  call[w].request.refresh \in 0 .. issued
          BY <2>1, <4>1 DEF CallOK
        <4> QED
          BY <2>0, <2>1, <3>1, <3>3, <4>1 DEF Places, Placed
      <3>9. NothingLiveIsForgotten' /\ NewestIsNear'
        BY <2>1, <3>1, <3>2, <3>7 DEF NothingLiveIsForgotten, NewestIsNear
      <3> QED
        BY <3>4, <3>5, <3>6, <3>7, <3>8, <3>9, <3>10 DEF CustodyInv
    <2>13. CASE Tick
      <3>1. clock' \in 0 .. Horizon
        BY <2>1, <2>13, CustodyAssumption DEF Tick, TypeOK
      <3> QED
        BY <2>1, <2>13, <3>1 DEF Tick, provider, CustodyInv, TypeOK, Solo,
           NothingLiveIsForgotten, NewestIsNear, InFlight, Unstored, RowOK, Places,
           Placed, Apart
    <2>14. CASE UNCHANGED vars
      BY <2>1, <2>14 DEF vars, CustodyInv, TypeOK, Solo,
         NothingLiveIsForgotten, NewestIsNear, InFlight, Unstored, RowOK, Places,
         Placed, Apart
    <2> QED
      BY <2>2, <2>3, <2>4, <2>5, <2>6, <2>7, <2>8, <2>9, <2>10, <2>11, <2>12, <2>13,
         <2>14 DEF Next
  <1> QED
    BY <1>1, <1>2, PTL DEF Spec

(* A refresh token that the provider honours is in the row, with a call, or  *)
(* cost by a failed one; only a sign-out that overlaps a refresh leaves one  *)
(* behind without a failure (api.go:279-280, 303-305, token.go:33-36).      *)
THEOREM CustodyKeepsTheLive == Spec => []NothingLiveIsForgotten
  <1>1. CustodyInv => NothingLiveIsForgotten
    BY DEF CustodyInv
  <1> QED
    BY <1>1, CustodyInductive, PTL

(* Without a failure and with no call in flight, the row holds the newest   *)
(* refresh token (api.go:299-315).                                          *)
THEOREM CustodyStoresTheNewest == Spec => []StoredIsNewest
  <1>1. CustodyInv => StoredIsNewest
    BY DEF CustodyInv, NewestIsNear, StoredIsNewest
  <1> QED
    BY <1>1, CustodyInductive, PTL

(* Type correctness; a login that succeeds has an ID token. *)
THEOREM CustodyTypes == Spec => []TypeOK
  <1>1. CustodyInv => TypeOK
    BY DEF CustodyInv
  <1> QED
    BY <1>1, CustodyInductive, PTL

-----------------------------------------------------------------------------
(* The expiry in the row.  Every stop of a call has its deadline, and the    *)
(* deadlines say how long ago the answer was given.                        *)

(* How long after the answer a call may compute the expiry. *)
Delay(op) == (1 + Stops(op)) * Timeout

(* How far the deadline of a call lies ahead of the clock and of the answer,  *)
(* phase by phase.                                                          *)
InTime(c, now) ==
  /\ c.phase \in {"asking", "answered", "verifying"} => now <= c.deadline
  /\ c.phase = "asking" => c.deadline <= now + Timeout
  /\ c.phase = "answered" => c.answer.at <= now /\ c.deadline <= c.answer.at + Timeout
  /\ c.phase = "verifying" =>
       c.answer.at <= now /\ c.deadline <= c.answer.at + Delay(c.request.op)
  /\ c.phase = "returned" =>
       /\ HonestWithin(c.result, Delay(c.request.op))
       /\ c.result.expiresAt = None => c.request.op = "login"

ExpiryInv ==
  /\ store # None => HonestWithin(store, 4 * Timeout)
  /\ \A w \in Worker : InTime(call[w], clock)

(* The delays. *)
LEMMA DelayIs ==
  ASSUME NEW op
  PROVE  /\ Delay(op) \in Nat /\ Delay(op) <= 4 * Timeout
         /\ Timeout + Stops(op) * Timeout = Delay(op)
         /\ Stops(op) * Timeout \in Nat
  BY CustodyAssumption DEF Delay, Stops

(* What is less than the modulus is its own remainder. *)
LEMMA RemainderIs ==
  ASSUME NEW a \in Nat, NEW b \in Nat, a < b
  PROVE  a % b = a
  OBVIOUS

(* A lifetime that fits in a duration is one. *)
LEMMA DurationIs ==
  ASSUME NEW s \in Nat, s < Limit
  PROVE  Duration(s) = s
  <1>1. Limit \in Nat /\ s + Limit \in Nat /\ 2 * Limit \in Nat /\ s + Limit < 2 * Limit
    BY CustodyAssumption
  <1>2. (s + Limit) % (2 * Limit) = s + Limit
    BY <1>1, RemainderIs
  <1>3. Duration(s) = (s + Limit) - Limit
    BY <1>2, Zenon DEF Duration
  <1> QED
    BY <1>1, <1>3

(* A remainder is no more than what is divided. *)
LEMMA RemainderIsLess ==
  ASSUME NEW a \in Nat, NEW b \in Nat \ {0}
  PROVE  a % b \in Nat /\ a % b <= a
  <1>1. a % b \in Nat /\ a % b < b
    OBVIOUS
  <1>2. CASE a < b
    BY <1>2, RemainderIs
  <1>3. CASE b <= a
    BY <1>1, <1>3
  <1> QED
    BY <1>1, <1>2, <1>3

(* A lifetime that wraps around only becomes shorter. *)
LEMMA DurationIsLess ==
  ASSUME NEW s \in Nat
  PROVE  Duration(s) \in Int /\ Duration(s) <= s
  <1>1. Limit \in Nat /\ s + Limit \in Nat /\ 2 * Limit \in Nat \ {0}
    BY CustodyAssumption
  <1>2. (s + Limit) % (2 * Limit) \in Nat /\ (s + Limit) % (2 * Limit) <= s + Limit
    BY <1>1, RemainderIsLess
  <1>3. PICK r \in Nat : r = (s + Limit) % (2 * Limit)
    BY <1>2
  <1>4. Duration(s) = r - Limit
    BY <1>3 DEF Duration
  <1> QED
    BY <1>1, <1>2, <1>3, <1>4

(* Who may be late may be later. *)
LEMMA HonestLater ==
  ASSUME NEW set \in TokenSet, NEW d \in Nat, NEW e \in Nat, d <= e,
         HonestWithin(set, d)
  PROVE  HonestWithin(set, e)
  <1>1. set.at \in Int /\ set.expiresIn \in Nat
    <2>1. set.at \in 0 .. Horizon /\ set.expiresIn \in Lifetime
      BY DEF TokenSet
    <2>2. set.at \in Int
      BY <2>1
    <2>3. Lifetime \subseteq Nat
      BY CustodyAssumption
    <2> QED
      BY <2>1, <2>2, <2>3, Zenon
  <1>2. CASE set.expiresAt = None
    BY <1>2 DEF HonestWithin
  <1>3. CASE set.expiresAt # None
    <2>1. set.expiresAt \in Int
      BY <1>3 DEF TokenSet
    <2> QED
      BY <1>1, <1>3, <2>1 DEF HonestWithin
  <1> QED
    BY <1>2, <1>3

(* The times of a call. *)
LEMMA TimesAre ==
  ASSUME TypeOK, NEW w \in Worker, call[w].phase # "idle",
         CallOK(call[w], issued, current)
  PROVE  /\ clock \in Int /\ Timeout \in Int /\ 0 <= Timeout
         /\ call[w].deadline \in Int
         /\ call[w].phase # "asking" => call[w].answer \in Answer /\ call[w].answer.at \in Int
  <1>1. call[w] \in Call
    BY CallIs
  <1>2. clock \in 0 .. Horizon /\ Horizon \in Nat /\ Timeout \in Nat
    BY CustodyAssumption DEF TypeOK
  <1>3. call[w].deadline \in 0 .. Horizon + 3 * Timeout
    BY <1>1 DEF Call
  <1>4. call[w].phase # "asking" => call[w].answer \in Answer
    BY DEF CallOK
  <1>5. call[w].phase # "asking" => call[w].answer.at \in 0 .. Horizon
    BY <1>4 DEF Answer
  <1> QED
    BY <1>2, <1>3, <1>4, <1>5

(* What a call returns is honest. *)
LEMMA ResultIsHonest ==
  ASSUME TypeOK, NEW w \in Worker, call[w].phase = "verifying",
         CallOK(call[w], issued, current), InTime(call[w], clock)
  PROVE  /\ HonestWithin(Result(call[w]), Delay(call[w].request.op))
         /\ Result(call[w]).expiresAt = None => call[w].request.op = "login"
  <1> DEFINE f == call[w]
             s == f.answer.expiresIn
             d == Delay(f.request.op)
  <1>1. /\ clock \in Int /\ Timeout \in Int /\ f.deadline \in Int /\ f.answer.at \in Int
        /\ f.answer \in Answer /\ d \in Int
    BY TimesAre, DelayIs
  <1>2. f.answer.at <= clock /\ clock <= f.deadline /\ f.deadline <= f.answer.at + d
    BY DEF InTime
  <1>3. /\ Result(f).at = f.answer.at /\ Result(f).expiresIn = s
        /\ Result(f).expiresAt = ExpiresAt(f)
    BY DEF Result
  <1>4. s \in Nat
    <2>1. s \in Lifetime
      BY <1>1 DEF Answer
    <2> QED
      BY <2>1, CustodyAssumption
  <1>5. CASE f.request.op = "login" /\ s = 0
    <2>1. ExpiresAt(f) = None
      BY <1>5 DEF ExpiresAt
    <2> QED
      BY <1>3, <1>5, <2>1 DEF HonestWithin
  <1>6. CASE ~(f.request.op = "login" /\ s = 0)
    <2>1. ExpiresAt(f) = clock + Duration(s)
      BY <1>6 DEF ExpiresAt
    <2>2. Duration(s) \in Int /\ Duration(s) <= s
      BY <1>4, DurationIsLess
    <2>3. s < Limit => Duration(s) = s
      BY <1>4, DurationIs
    <2>4. PICK t \in Int : t = Duration(s)
      BY <2>2
    <2>5. clock + t \in Int /\ clock + t # None
      <3>1. clock + t \in Int
        BY <1>1
      <3> QED
        BY <3>1, NoneAssumption
    <2>6. clock + t <= f.answer.at + s + d
      BY <1>1, <1>2, <1>4, <2>2, <2>4
    <2>7. (0 < s /\ s < Limit) => f.answer.at + s <= clock + t
      BY <1>1, <1>2, <1>4, <2>3, <2>4
    <2>8. Result(f).expiresAt = clock + t
      BY <1>3, <2>1, <2>4
    <2> QED
      BY <1>3, <2>5, <2>6, <2>7, <2>8 DEF HonestWithin
  <1> QED
    BY <1>5, <1>6

(* A step of one call, while no time passes. *)
LEMMA OneInTime ==
  ASSUME TypeOK, ExpiryInv, NEW w \in Worker, NEW c, Becomes(w, c), clock' = clock,
         InTime(c, clock),
         store' # None => HonestWithin(store', 4 * Timeout)
  PROVE  ExpiryInv'
  <1>1. call'[w] = c /\ \A v \in Worker \ {w} : call'[v] = call[v]
    BY DEF TypeOK, Becomes
  <1>2. \A v \in Worker : InTime(call'[v], clock)
    BY <1>1 DEF ExpiryInv
  <1> QED
    BY <1>2 DEF ExpiryInv, InTime, HonestWithin

LEMMA IdleInTime == InTime(Idle, clock)
  BY DEF Idle, InTime

LEMMA ExpiryStep ==
  ASSUME CustodyInv, ExpiryInv, [Next]_vars
  PROVE  ExpiryInv'
  <1>1. TypeOK /\ \A w \in Worker : CallOK(call[w], issued, current)
    BY DEF CustodyInv
  <1>2. store # None => HonestWithin(store, 4 * Timeout)
    BY DEF ExpiryInv
  <1>3. ASSUME NEW w \in Worker, call[w].phase # "idle"
        PROVE  /\ call[w] \in Call /\ InTime(call[w], clock)
               /\ clock \in Int /\ Timeout \in Int /\ 0 <= Timeout
               /\ call[w].deadline \in Int
               /\ call[w].phase # "asking" => call[w].answer.at \in Int
    BY <1>1, <1>3, CallIs, TimesAre DEF ExpiryInv
  <1>4. ASSUME NEW w \in Worker, NEW op, NEW refresh, Send(w, op, refresh)
        PROVE  ExpiryInv'
    <2> PICK c : c = [Idle EXCEPT !.phase = "asking", !.started = clock,
                                  !.request = [op |-> op, refresh |-> refresh],
                                  !.deadline = clock + Timeout]
      OBVIOUS
    <2>1. Becomes(w, c) /\ clock' = clock /\ store' = store
      BY <1>4 DEF Send, Becomes
    <2>2. c.phase = "asking" /\ c.deadline = clock + Timeout
      BY DEF Idle
    <2>3. clock \in Int /\ Timeout \in Int /\ 0 <= Timeout
      BY <1>1, CustodyAssumption DEF TypeOK
    <2>4. InTime(c, clock)
      BY <2>2, <2>3 DEF InTime
    <2> QED
      BY <1>1, <1>2, <2>1, <2>4, OneInTime
  <1>5. ASSUME NEW w \in Worker, Becomes(w, Idle), clock' = clock,
               store' # None => HonestWithin(store', 4 * Timeout)
        PROVE  ExpiryInv'
    BY <1>1, <1>5, IdleInTime, OneInTime
  <1>6. ASSUME NEW w \in Worker, Drop(w), clock' = clock, store' = store
        PROVE  ExpiryInv'
    BY <1>2, <1>5, <1>6 DEF Drop, Becomes
  <1>7. ASSUME NEW w \in Worker, Receive(w) PROVE ExpiryInv'
    <2>1. CASE call[w].answer.content # "unusable"
      <3> PICK c : c = [call[w] EXCEPT !.phase = "verifying",
                                       !.deadline =
                                         clock + Stops(call[w].request.op) * Timeout]
        OBVIOUS
      <3>1. Becomes(w, c) /\ clock' = clock /\ store' = store
        BY <1>7, <2>1 DEF Receive, Becomes
      <3>2. call[w].phase = "answered"
        BY <1>7 DEF Receive
      <3>3. /\ c.phase = "verifying" /\ c.answer = call[w].answer
            /\ c.request = call[w].request
            /\ c.deadline = clock + Stops(call[w].request.op) * Timeout
        BY <1>3, <3>2 DEF Call
      <3>4. /\ call[w].answer.at <= clock /\ clock <= call[w].deadline
            /\ call[w].deadline <= call[w].answer.at + Timeout
        BY <1>3, <3>2 DEF InTime
      <3>5. PICK k \in Nat : k = Stops(call[w].request.op) * Timeout
        BY DelayIs
      <3>6. Delay(call[w].request.op) = Timeout + k
        BY <3>5, DelayIs
      <3>7. clock <= clock + k /\ clock + k <= call[w].answer.at + (Timeout + k)
        BY <1>3, <3>2, <3>4
      <3>8. InTime(c, clock)
        BY <3>3, <3>4, <3>5, <3>6, <3>7 DEF InTime
      <3> QED
        BY <1>1, <1>2, <3>1, <3>8, OneInTime
    <2>2. CASE call[w].answer.content = "unusable"
      BY <1>6, <1>7, <2>2 DEF Receive
    <2> QED
      BY <2>1, <2>2
  <1>8. ASSUME NEW w \in Worker, Return(w) PROVE ExpiryInv'
    <2>1. CASE AcceptsIDToken(call[w])
      <3> PICK c : c = [call[w] EXCEPT !.phase = "returned", !.deadline = Horizon,
                                       !.result = Result(call[w])]
        OBVIOUS
      <3>1. Becomes(w, c) /\ clock' = clock /\ store' = store
        BY <1>8, <2>1 DEF Return, Becomes
      <3>2. call[w].phase = "verifying"
        BY <1>8 DEF Return
      <3>3. /\ c.phase = "returned" /\ c.result = Result(call[w])
            /\ c.request = call[w].request
        BY <1>3, <3>2 DEF Call
      <3>4. /\ HonestWithin(c.result, Delay(c.request.op))
            /\ c.result.expiresAt = None => c.request.op = "login"
        BY <1>1, <1>3, <3>2, <3>3, ResultIsHonest
      <3>5. InTime(c, clock)
        BY <3>3, <3>4 DEF InTime
      <3> QED
        BY <1>1, <1>2, <3>1, <3>5, OneInTime
    <2>2. CASE ~AcceptsIDToken(call[w])
      BY <1>6, <1>8, <2>2 DEF Return
    <2> QED
      BY <2>1, <2>2
  <1>9. ASSUME NEW w \in Worker, Store(w) PROVE ExpiryInv'
    <2>1. call[w].phase = "returned" /\ clock' = clock
      BY <1>9 DEF Store
    <2>2. Becomes(w, Idle) /\ store' \in {call[w].result, store}
      BY <1>9 DEF Store, Becomes
    <2>3. call[w].result \in TokenSet
      BY <1>1, <2>1 DEF CallOK
    <2>4. HonestWithin(call[w].result, Delay(call[w].request.op))
      BY <1>3, <2>1 DEF InTime
    <2>5. HonestWithin(call[w].result, 4 * Timeout)
      <3>1. PICK d \in Nat : d = Delay(call[w].request.op) /\ d <= 4 * Timeout
        BY DelayIs
      <3>2. 4 * Timeout \in Nat
        BY CustodyAssumption
      <3> QED
        BY <2>3, <2>4, <3>1, <3>2, HonestLater
    <2> QED
      BY <1>2, <1>5, <2>1, <2>2, <2>5
  <1>10. ASSUME NEW w \in Worker, NEW a, a.at = clock, call[w].phase = "asking",
                Answered(w, a), clock' = clock, store' = store
         PROVE  ExpiryInv'
    <2> PICK c : c = [call[w] EXCEPT !.phase = "answered", !.answer = a]
      OBVIOUS
    <2>1. Becomes(w, c)
      BY <1>10 DEF Answered, Becomes
    <2>2. c.phase = "answered" /\ c.answer = a /\ c.deadline = call[w].deadline
      BY <1>3, <1>10 DEF Call
    <2>3. clock <= call[w].deadline /\ call[w].deadline <= clock + Timeout
      BY <1>3, <1>10 DEF InTime
    <2>4. InTime(c, clock)
      BY <1>3, <1>10, <2>2, <2>3 DEF InTime
    <2> QED
      BY <1>1, <1>2, <1>10, <2>1, <2>4, OneInTime
  <1>11. ASSUME NEW w \in Worker, Execute(w) \/ Refuse(w) PROVE ExpiryInv'
    <2>1. call[w].phase = "asking" /\ clock' = clock /\ store' = store
      BY <1>11 DEF Execute, Refuse
    <2>2. \E a : a.at = clock /\ Answered(w, a)
      <3>1. \A content : Plain(content).at = clock
        BY DEF Plain
      <3> QED
        BY <1>11, <3>1 DEF Execute, Refuse
    <2> QED
      BY <1>10, <2>1, <2>2
  <1>12. ASSUME NEW w \in Worker, SignOut(w) PROVE ExpiryInv'
    BY <1>2, <1>5, <1>12 DEF SignOut, Becomes
  <1>13. ASSUME UNCHANGED <<clock, store, call>> PROVE ExpiryInv'
    BY <1>13 DEF ExpiryInv, InTime, HonestWithin
  <1>14. CASE Tick
    <2>1. /\ clock' = clock + 1 /\ store' = store /\ call' = call
          /\ \A w \in Worker : call[w].phase # "idle" => clock < call[w].deadline
      BY <1>14 DEF Tick
    <2>2. ASSUME NEW w \in Worker PROVE InTime(call[w], clock')
      <3>1. CASE call[w].phase = "idle"
        BY <3>1 DEF InTime
      <3>2. CASE call[w].phase # "idle"
        <4>1. clock < call[w].deadline /\ clock' = clock + 1
          BY <2>1, <3>2
        <4> QED
          BY <1>3, <3>2, <4>1 DEF InTime
      <3> QED
        BY <3>1, <3>2
    <2> QED
      BY <1>2, <2>1, <2>2 DEF ExpiryInv, InTime, HonestWithin
  <1>15. ASSUME NEW w \in Worker, Login(w) \/ Refresh(w) \/ Revoke(w) PROVE ExpiryInv'
    BY <1>4, <1>15 DEF Login, Refresh, Revoke
  <1>16. ASSUME NEW w \in Worker, Abandon(w) PROVE ExpiryInv'
    BY <1>6, <1>16 DEF Abandon
  <1>17. ASSUME NEW r \in late, ExecuteLate(r) PROVE ExpiryInv'
    BY <1>13, <1>17 DEF ExecuteLate
  <1>18. CASE UNCHANGED vars
    BY <1>13, <1>18 DEF vars
  <1> QED
    BY <1>7, <1>8, <1>9, <1>11, <1>12, <1>14, <1>15, <1>16, <1>17, <1>18 DEF Next

(* An expiry is late by no more than the stops of its call, whatever the     *)
(* lifetime, never early for one that fits in a duration, and open only after *)
(* a login (api.go:268-271, 306, 315; exchange.go:124, 197, 228).           *)
THEOREM CustodyExpiry == Spec => []ExpiryIsHonest
  <1>1. Init => ExpiryInv
    BY IdleInTime DEF Init, ExpiryInv
  <1>2. ExpiryInv => ExpiryIsHonest
    BY DEF ExpiryInv, InTime, Delay, ExpiryIsHonest
  <1> QED
    BY <1>1, <1>2, ExpiryStep, CustodyInductive, PTL DEF Spec

=============================================================================
