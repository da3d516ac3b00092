----------------------- MODULE EndpointClientProofs -----------------------
(***************************************************************************)
(* For any number of operations, any rotation of nonces and any delay: the *)
(* one retry never executes an operation twice, and the client may believe *)
(* the answers it gets.                                                    *)
(***************************************************************************)
EXTENDS EndpointClient, TLAPS

(* One message at a time: whatever is on its way for an operation belongs   *)
(* to the latest request of an operation that was started and whose answer  *)
(* the client has not had.  A request carries the nonce the client last     *)
(* put into a proof.                                                       *)
OneMessage ==
  /\ \A r \in requests :
       /\ r.try = call[r.op].try
       /\ r.nonce = call[r.op].nonce
       /\ call[r.op].phase \in {"waiting", "failed"}
  /\ \A p \in replies :
       /\ p.try = call[p.op].try
       /\ call[p.op].phase \in {"waiting", "failed"}
  /\ \A r, s \in requests : r.op = s.op => r = s
  /\ \A p, q \in replies : p.op = q.op => p = q
  /\ \A r \in requests, p \in replies : r.op # p.op

(* What the provider has done, as the messages and the client tell it. *)
Account ==
  /\ \A op \in Op : call[op].phase = "idle" => executed[op] = 0
  /\ \A op \in Op : executed[op] \in {0, 1}
  /\ \A r \in requests : executed[r.op] = 0
  /\ \A p \in replies :
       executed[p.op] = IF p.status \in {"ok", "garbled"} THEN 1 ELSE 0
  /\ \A op \in Op :
       /\ call[op].phase = "ok" => executed[op] = 1
       /\ call[op].phase \in {"refused", "challenged"} => executed[op] = 0

(* A second request carries a nonce of the provider; a challenge answers    *)
(* only requests whose nonce is not the provider's any more.                *)
NonceInv ==
  /\ \A op \in Op : call[op].try = 1 => call[op].nonce \in 1 .. nonce
  /\ \A p \in replies :
       /\ p.nonce \in 1 .. nonce
       /\ (p.status = "challenge" /\ p.try = 1) =>
            call[p.op].nonce \in 1 .. nonce - 1

EndpointInv ==
  /\ TypeOK
  /\ OneMessage
  /\ Account
  /\ NonceInv
  /\ ChallengeIsAnswered

(* What the caller is told depends on what the provider has done. *)
LEMMA VerdictIs ==
  ASSUME NEW op \in Op,
         NEW status \in {"ok", "garbled", "error", "mute", "challenge"}
  PROVE  /\ Verdict(op, status) \in Ended
         /\ Verdict(op, status) = "ok" => status \in {"ok", "garbled"}
         /\ Verdict(op, status) \in {"refused", "challenged"} =>
              status \notin {"ok", "garbled"}
         /\ Verdict(op, status) = "challenged" =>
              Retries(op) /\ status = "challenge"
<1>1. \/ Retries(op)
      \/ ~Retries(op) /\ Kind[op] = "revoke"
      \/ ~Retries(op) /\ Kind[op] = "userinfo"
  BY OpAssumption DEF Retries, KindType
<1>2. CASE Retries(op)
  <2>1. Verdict(op, status) = JSONVerdict(status)
    BY <1>2 DEF Verdict, Retries
  <2>2. QED
    BY <1>2, <2>1 DEF JSONVerdict, Ended
<1>3. CASE ~Retries(op) /\ Kind[op] = "revoke"
  <2>1. Verdict(op, status) = RevokeVerdict(status)
    BY <1>3 DEF Verdict
  <2>2. QED
    BY <2>1 DEF RevokeVerdict, Ended
<1>4. CASE ~Retries(op) /\ Kind[op] = "userinfo"
  <2>1. Verdict(op, status) = UserInfoVerdict(status)
    BY <1>4 DEF Verdict
  <2>2. QED
    BY <2>1 DEF UserInfoVerdict, Ended
<1>5. QED
  BY <1>1, <1>2, <1>3, <1>4

(* The invariant holds whatever the provider answers, and whenever. *)
THEOREM EndpointInductive == Spec => []EndpointInv
<1>1. Init => EndpointInv
  BY OpAssumption, ProviderAssumption
  DEF Init, EndpointInv, TypeOK, OneMessage, Account, NonceInv,
      ChallengeIsAnswered, Nonce, Try
<1>2. EndpointInv /\ [Next]_vars => EndpointInv'
  <2> SUFFICES ASSUME EndpointInv, [Next]_vars PROVE EndpointInv'
    OBVIOUS
  <2> USE OpAssumption, ProviderAssumption
  <2> USE DEF EndpointInv, Nonce, Try, Ended, Request, Reply
  <2>1. ASSUME NEW op \in Op, Start(op) PROVE EndpointInv'
    <3>1. TypeOK'
      BY <2>1 DEF Start, Transmit, TypeOK
    <3>2. OneMessage'
      BY <2>1 DEF Start, Transmit, OneMessage, TypeOK
    <3>3. Account'
      BY <2>1 DEF Start, Transmit, Account, OneMessage, TypeOK
    <3>4. NonceInv'
      BY <2>1 DEF Start, Transmit, NonceInv, OneMessage, TypeOK
    <3>5. ChallengeIsAnswered'
      BY <2>1
      DEF Start, Transmit, ChallengeIsAnswered, NonceInv, OneMessage,
          TypeOK
    <3> QED BY <3>1, <3>2, <3>3, <3>4, <3>5
  <2>2. ASSUME NEW op \in Op, TimeOut(op) PROVE EndpointInv'
    <3>1. TypeOK'
      BY <2>2 DEF TimeOut, End, TypeOK
    <3>2. OneMessage'
      BY <2>2 DEF TimeOut, End, OneMessage, TypeOK
    <3>3. Account'
      BY <2>2 DEF TimeOut, End, Account, OneMessage, TypeOK
    <3>4. NonceInv'
      BY <2>2 DEF TimeOut, End, NonceInv, OneMessage, TypeOK
    <3>5. ChallengeIsAnswered'
      BY <2>2
      DEF TimeOut, End, ChallengeIsAnswered, NonceInv, OneMessage,
          TypeOK
    <3> QED BY <3>1, <3>2, <3>3, <3>4, <3>5
  <2>3. ASSUME NEW op \in Op, NEW p \in replies, Receive(op, p) PROVE EndpointInv'
    <3>1. TypeOK'
      BY <2>3, VerdictIs
      DEF Receive, Repeats, Transmit, End, TypeOK
    <3>2. OneMessage'
      BY <2>3, VerdictIs
      DEF Receive, Repeats, Transmit, End, OneMessage,
          TypeOK
    <3>3. Account'
      <4>1. /\ call[op].phase = "waiting" /\ p.op = op
            /\ p.status \in {"ok", "garbled", "error", "mute", "challenge"}
            /\ executed[op] = IF p.status \in {"ok", "garbled"} THEN 1 ELSE 0
            /\ replies' = replies \ {p} /\ executed' = executed
        BY <2>3 DEF Receive, Account, TypeOK
      <4>2. CASE p.status = "challenge" /\ Repeats(op)
        <5>1. Transmit(op, call[op].try + 1, p.nonce)
          BY <2>3, <4>2 DEF Receive
        <5>2. QED
          BY <4>1, <4>2, <5>1 DEF Transmit, Account, TypeOK
      <4>3. CASE ~(p.status = "challenge" /\ Repeats(op))
        <5>1. PICK v \in Ended :
                /\ call' = [call EXCEPT ![op].phase = v]
                /\ v = "ok" => executed[op] = 1
                /\ v \in {"refused", "challenged"} => executed[op] = 0
          BY <2>3, <4>1, <4>3, VerdictIs DEF Receive, End
        <5>2. requests' = requests
          BY <2>3, <4>3 DEF Receive, End
        <5>3. QED
          BY <4>1, <5>1, <5>2 DEF Account, TypeOK
      <4>4. QED
        BY <4>2, <4>3
    <3>4. NonceInv'
      BY <2>3, VerdictIs
      DEF Receive, Repeats, Transmit, End, NonceInv,
          OneMessage, TypeOK
    <3>5. ChallengeIsAnswered'
      BY <2>3, VerdictIs
      DEF Receive, Repeats, Transmit, End,
          ChallengeIsAnswered, NonceInv, OneMessage, TypeOK
    <3> QED BY <3>1, <3>2, <3>3, <3>4, <3>5
  <2>4. ASSUME NEW r \in requests, Challenge(r) PROVE EndpointInv'
    <3>1. TypeOK'
      BY <2>4 DEF Challenge, Current, Answer, TypeOK
    <3>2. OneMessage'
      BY <2>4 DEF Challenge, Current, Answer, OneMessage, TypeOK
    <3>3. Account'
      BY <2>4 DEF Challenge, Current, Answer, Account, OneMessage, TypeOK
    <3>4. NonceInv'
      <4>1. /\ r.op \in Op
            /\ r.nonce # nonce
            /\ r.nonce = call[r.op].nonce
            /\ r.try = call[r.op].try
        BY <2>4 DEF Challenge, Current, OneMessage, TypeOK
      <4>2. /\ nonce \in 1 .. MaxNonce
            /\ nonce' = nonce
            /\ call' = call
        BY <2>4 DEF Challenge, TypeOK
      <4>3. r.try = 1 => call[r.op].nonce \in 1 .. nonce - 1
        <5>1. ASSUME r.try = 1 PROVE call[r.op].nonce \in 1 .. nonce
          BY <4>1, <5>1 DEF NonceInv
        <5>2. QED
          BY <4>1, <4>2, <5>1
      <4>4. ASSUME NEW p \in replies'
            PROVE  /\ p.nonce \in 1 .. nonce
                   /\ (p.status = "challenge" /\ p.try = 1) =>
                        call[p.op].nonce \in 1 .. nonce - 1
        <5>1. CASE p \in replies
          BY <5>1 DEF NonceInv
        <5>2. CASE p = [op |-> r.op, try |-> r.try,
                        status |-> "challenge", nonce |-> nonce]
          BY <5>2, <4>2, <4>3
        <5>3. QED
          BY <5>1, <5>2, <2>4 DEF Challenge, Answer
      <4>5. QED
        BY <4>2, <4>4 DEF NonceInv
    <3>5. ChallengeIsAnswered'
      BY <2>4
      DEF Challenge, Current, Answer, ChallengeIsAnswered, NonceInv,
          OneMessage, TypeOK
    <3> QED BY <3>1, <3>2, <3>3, <3>4, <3>5
  <2>5. ASSUME NEW r \in requests, Execute(r) PROVE EndpointInv'
    <3>1. TypeOK'
      <4>1. executed[r.op] = 0
        BY DEF Account
      <4>2. QED
        BY <2>5, <4>1 DEF Execute, Answer, TypeOK
    <3>2. OneMessage'
      BY <2>5 DEF Execute, Answer, OneMessage, TypeOK
    <3>3. Account'
      BY <2>5 DEF Execute, Answer, Account, OneMessage, TypeOK
    <3>4. NonceInv'
      BY <2>5 DEF Execute, Answer, NonceInv, OneMessage, TypeOK
    <3>5. ChallengeIsAnswered'
      BY <2>5
      DEF Execute, Answer, ChallengeIsAnswered, NonceInv, OneMessage,
          TypeOK
    <3> QED BY <3>1, <3>2, <3>3, <3>4, <3>5
  <2>6. ASSUME NEW r \in requests, Refuse(r) PROVE EndpointInv'
    <3>1. TypeOK'
      BY <2>6 DEF Refuse, Answer, TypeOK
    <3>2. OneMessage'
      BY <2>6 DEF Refuse, Answer, OneMessage, TypeOK
    <3>3. Account'
      BY <2>6 DEF Refuse, Answer, Account, OneMessage, TypeOK
    <3>4. NonceInv'
      BY <2>6 DEF Refuse, Answer, NonceInv, OneMessage, TypeOK
    <3>5. ChallengeIsAnswered'
      BY <2>6
      DEF Refuse, Answer, ChallengeIsAnswered, NonceInv, OneMessage,
          TypeOK
    <3> QED BY <3>1, <3>2, <3>3, <3>4, <3>5
  <2>7. ASSUME Rotate PROVE EndpointInv'
    <3>1. TypeOK'
      BY <2>7 DEF Rotate, TypeOK
    <3>2. OneMessage'
      BY <2>7 DEF Rotate, OneMessage, TypeOK
    <3>3. Account'
      BY <2>7 DEF Rotate, Account, OneMessage, TypeOK
    <3>4. NonceInv'
      BY <2>7 DEF Rotate, NonceInv, OneMessage, TypeOK
    <3>5. ChallengeIsAnswered'
      BY <2>7 DEF Rotate, ChallengeIsAnswered, NonceInv, OneMessage, TypeOK
    <3> QED BY <3>1, <3>2, <3>3, <3>4, <3>5
  <2>8. ASSUME UNCHANGED vars PROVE EndpointInv'
    <3>1. TypeOK'
      BY <2>8 DEF vars, TypeOK
    <3>2. OneMessage'
      BY <2>8 DEF vars, OneMessage, TypeOK
    <3>3. Account'
      BY <2>8 DEF vars, Account, OneMessage, TypeOK
    <3>4. NonceInv'
      BY <2>8 DEF vars, NonceInv, OneMessage, TypeOK
    <3>5. ChallengeIsAnswered'
      BY <2>8 DEF vars, ChallengeIsAnswered, NonceInv, OneMessage, TypeOK
    <3> QED BY <3>1, <3>2, <3>3, <3>4, <3>5
  <2> QED
    BY <2>1, <2>2, <2>3, <2>4, <2>5, <2>6, <2>7, <2>8 DEF Next
<1> QED
  BY <1>1, <1>2, PTL DEF Spec

(* The model's values have their types; in particular no operation is sent *)
(* more than twice (endpoint_client.go:110). *)
THEOREM EndpointTypes == Spec => []TypeOK
<1>1. EndpointInv => TypeOK
  BY DEF EndpointInv
<1> QED
  BY <1>1, EndpointInductive, PTL

(* The provider executes an operation at most once, whatever is late, lost  *)
(* or rotated (endpoint_client.go:132). *)
THEOREM EndpointExecutesOnce == Spec => []ExecutedOnce
<1>1. EndpointInv => ExecutedOnce
  <2> SUFFICES ASSUME EndpointInv, NEW op \in Op PROVE executed[op] <= 1
    BY DEF ExecutedOnce
  <2>1. executed[op] \in {0, 1}
    BY DEF EndpointInv, Account
  <2>2. QED
    BY <2>1
<1> QED
  BY <1>1, EndpointInductive, PTL

(* A success was executed; a refusal was not, and never will be. *)
THEOREM EndpointAnswers == Spec => []AnswerIsTrue
<1>1. EndpointInv => AnswerIsTrue
  BY DEF EndpointInv, Account, OneMessage, AnswerIsTrue
<1> QED
  BY <1>1, EndpointInductive, PTL

(* A nonce challenge that ends an operation answers a nonce of the provider *)
(* which it has replaced since (endpoint_client.go:131-134). *)
THEOREM EndpointChallenges == Spec => []ChallengeIsAnswered
<1>1. EndpointInv => ChallengeIsAnswered
  BY DEF EndpointInv
<1> QED
  BY <1>1, EndpointInductive, PTL

-----------------------------------------------------------------------------
(* EndpointClient implements Exchange: every step of the protocol is one     *)
(* step of the exchange or none of its business.                            *)

(* What is done for one operation changes nothing for another one.            *)
LEMMA ElsewhereTheSame ==
  ASSUME NEW op \in Op,
         \A o \in Op : o # op => call'[o] = call[o],
         \A r : r.op # op => (r \in requests' <=> r \in requests),
         \A p : p.op # op => (p \in replies' <=> p \in replies)
  PROVE  /\ Outcome' = [Outcome EXCEPT ![op] = OutcomeOf(op)']
         /\ \A o \in Op : o # op => (o \in Open' <=> o \in Open)
  <1>1. \A o \in Op : o # op => OutcomeOf(o)' = OutcomeOf(o)
    BY DEF OutcomeOf
  <1>2. \A o \in Op : o # op => (o \in Open' <=> o \in Open)
    BY DEF Open, Repeats
  <1> QED
    BY <1>1, <1>2 DEF Outcome

(* A request that leaves is one of its operation, which waits for its answer. *)
LEMMA RequestLeaves ==
  ASSUME EndpointInv, NEW op \in Op, NEW try, NEW n, Transmit(op, try, n)
  PROVE  /\ call'[op].phase = "waiting"
         /\ \A o \in Op : o # op => call'[o] = call[o]
         /\ \A r : r.op # op => (r \in requests' <=> r \in requests)
         /\ \E r \in requests' : r.op = op
  <1>1. PICK q : q = [op |-> op, try |-> try, nonce |-> n]
    OBVIOUS
  <1>2. q.op = op
    BY <1>1
  <1>3. requests' = requests \cup {q}
    BY <1>1, Zenon DEF Transmit
  <1>4. /\ call'[op].phase = "waiting"
        /\ \A o \in Op : o # op => call'[o] = call[o]
    BY DEF Transmit, EndpointInv, TypeOK
  <1> QED
    BY <1>2, <1>3, <1>4

(* A request that has come to the provider was the only message of its        *)
(* operation: now its answer is, and the operation is open only if that is a *)
(* challenge which will be answered.                                        *)
LEMMA AnswerSettles ==
  ASSUME EndpointInv, NEW r \in requests,
         NEW status \in {"ok", "garbled", "error", "mute", "challenge"},
         Answer(r, status), UNCHANGED call
  PROVE  /\ r.op \in Op /\ r.op \in Open
         /\ Outcome' = Outcome /\ Outcome[r.op] \in {"asking", "failed"}
         /\ IF status = "challenge" /\ call[r.op].phase = "waiting" /\ Repeats(r.op)
            THEN Open' = Open ELSE Open' = Open \ {r.op}
  <1> DEFINE op == r.op
  <1>1. op \in Op /\ op \in Open
    BY DEF EndpointInv, TypeOK, Request, Open
  <1>2. /\ \A o \in Op : o # op => call'[o] = call[o]
        /\ \A q : q.op # op => (q \in requests' <=> q \in requests)
        /\ \A p : p.op # op => (p \in replies' <=> p \in replies)
    BY DEF Answer
  <1>3. \A o \in Op : o # op => (o \in Open' <=> o \in Open)
    BY <1>1, <1>2, ElsewhereTheSame
  <1>4. Outcome' = Outcome
    BY DEF Outcome, OutcomeOf
  <1>5. Outcome[op] \in {"asking", "failed"}
    BY <1>1 DEF EndpointInv, OneMessage, Outcome, OutcomeOf
  <1>6. call[op].phase # "idle"
    BY DEF EndpointInv, OneMessage
  <1>7. ~ \E q \in requests' : q.op = op
    BY DEF EndpointInv, OneMessage, Answer
  <1>8. \A p \in replies' : p.op = op => p.status = status
    BY DEF EndpointInv, OneMessage, Answer
  <1>9. \E p \in replies' : p.op = op /\ p.status = status
    <2>1. PICK p : p = [op |-> op, try |-> r.try, status |-> status, nonce |-> nonce]
      OBVIOUS
    <2>2. p \in replies' /\ p.op = op /\ p.status = status
      BY <2>1 DEF Answer
    <2> QED
      BY <2>2
  <1>10. op \in Open' <=>
           status = "challenge" /\ call[op].phase = "waiting" /\ Repeats(op)
    BY <1>1, <1>6, <1>7, <1>8, <1>9 DEF Open, Repeats
  <1>11. Open \subseteq Op /\ Open' \subseteq Op
    BY DEF Open
  <1> QED
    BY <1>1, <1>3, <1>4, <1>5, <1>10, <1>11

(* One operation is one exchange, for any number of them and any nonces: the  *)
(* provider decides each once, and what the caller is told is what was       *)
(* decided (endpoint_client.go:108-147, token.go:12-37).                     *)
THEOREM EndpointKeepsExchange == Spec => KeepsExchange
  <1>1. Init => Abstract!Init
    BY DEF Init, Abstract!Init, Outcome, OutcomeOf, Open
  <1>2. EndpointInv /\ [Next]_vars => [Abstract!Next]_(Abstract!vars)
    <2> SUFFICES ASSUME EndpointInv, [Next]_vars
                 PROVE  Abstract!Next \/ UNCHANGED Abstract!vars
      OBVIOUS
    <2>1. ASSUME NEW op \in Op, Start(op) PROVE Abstract!Ask(op)
      <3>1. /\ Transmit(op, 0, 0) /\ call[op].phase = "idle"
            /\ UNCHANGED <<replies, executed>>
        BY <2>1 DEF Start
      <3>2. /\ call'[op].phase = "waiting"
            /\ \A o \in Op : o # op => call'[o] = call[o]
        BY <3>1, RequestLeaves
      <3>3. /\ \A r : r.op # op => (r \in requests' <=> r \in requests)
            /\ \E r \in requests' : r.op = op
        BY <3>1, RequestLeaves
      <3>4. /\ Outcome' = [Outcome EXCEPT ![op] = OutcomeOf(op)']
            /\ \A o \in Op : o # op => (o \in Open' <=> o \in Open)
        BY <3>1, <3>2, <3>3, ElsewhereTheSame
      <3>5. OutcomeOf(op)' = "asking" /\ Outcome[op] = "idle"
        BY <3>1, <3>2 DEF Outcome, OutcomeOf
      <3>6. op \in Open /\ op \in Open' /\ Open \subseteq Op /\ Open' \subseteq Op
        BY <3>1, <3>3 DEF Open
      <3>7. Open' = Open
        BY <3>4, <3>6
      <3> QED
        BY <3>1, <3>4, <3>5, <3>7 DEF Abstract!Ask
    <2>2. ASSUME NEW op \in Op, TimeOut(op) PROVE Abstract!Fail(op)
      <3>1. /\ call' = [call EXCEPT ![op].phase = "failed"]
            /\ call[op].phase = "waiting" /\ UNCHANGED <<requests, replies, executed>>
        BY <2>2 DEF TimeOut, End
      <3>2. call'[op].phase = "failed" /\ \A o \in Op : o # op => call'[o] = call[o]
        BY <3>1 DEF EndpointInv, TypeOK
      <3>3. /\ Outcome' = [Outcome EXCEPT ![op] = OutcomeOf(op)']
            /\ \A o \in Op : o # op => (o \in Open' <=> o \in Open)
        BY <3>1, <3>2, ElsewhereTheSame
      <3>4. OutcomeOf(op)' = "failed" /\ Outcome[op] = "asking"
        BY <3>1, <3>2 DEF Outcome, OutcomeOf
      <3>5. op \in Open' => op \in Open
        BY <3>1, <3>2 DEF Open
      <3>6. Open \subseteq Op /\ Open' \subseteq Op
        BY DEF Open
      <3>7. Open' \in {Open, Open \ {op}}
        BY <3>3, <3>5, <3>6
      <3> QED
        BY <3>1, <3>3, <3>4, <3>7 DEF Abstract!Fail
    <2>3. ASSUME NEW op \in Op, NEW p \in replies, Receive(op, p)
          PROVE  Abstract!Next \/ UNCHANGED Abstract!vars
      <3>1. /\ call[op].phase = "waiting" /\ p.op = op
            /\ replies' = replies \ {p} /\ UNCHANGED executed
            /\ p.status \in {"ok", "garbled", "error", "mute", "challenge"}
            /\ Outcome[op] = "asking"
        BY <2>3 DEF Receive, EndpointInv, TypeOK, Reply, Outcome, OutcomeOf
      <3>2. /\ ~ \E r \in requests : r.op = op
            /\ \A q \in replies : q.op = op => q = p
        BY <3>1 DEF EndpointInv, OneMessage
      <3>3. Open \subseteq Op /\ Open' \subseteq Op
        BY DEF Open
      <3>4. CASE p.status = "challenge" /\ Repeats(op)
        <4>1. /\ call'[op].phase = "waiting" /\ \A o \in Op : o # op => call'[o] = call[o]
              /\ \A r : r.op # op => (r \in requests' <=> r \in requests)
              /\ \E r \in requests' : r.op = op
          <5>1. Transmit(op, call[op].try + 1, p.nonce)
            BY <2>3, <3>4 DEF Receive
          <5> QED
            BY <5>1, RequestLeaves
        <4>2. \A o \in Op : o # op => (o \in Open' <=> o \in Open)
          BY <3>1, <4>1, ElsewhereTheSame
        <4>3. \A o \in Op : OutcomeOf(o)' = OutcomeOf(o)
          BY <3>1, <4>1 DEF OutcomeOf
        <4>4. op \in Open /\ op \in Open'
          <5>1. op \in Open
            <6>1. \E q \in replies : q.op = op /\ q.status = "challenge"
              BY <3>1, <3>4
            <6> QED
              BY <3>1, <3>4, <6>1 DEF Open
          <5>2. op \in Open'
            BY <4>1 DEF Open
          <5> QED
            BY <5>1, <5>2
        <4>5. Open' = Open
          BY <3>3, <4>2, <4>4
        <4>6. Outcome' = Outcome
          BY <4>3 DEF Outcome
        <4> QED
          BY <3>1, <4>5, <4>6 DEF Abstract!vars
      <3>5. CASE ~(p.status = "challenge" /\ Repeats(op))
        <4> DEFINE v == Verdict(op, p.status)
        <4>1. call' = [call EXCEPT ![op].phase = v] /\ UNCHANGED requests
          BY <2>3, <3>5 DEF Receive, End
        <4>2. call'[op].phase = v /\ \A o \in Op : o # op => call'[o] = call[o]
          BY <4>1 DEF EndpointInv, TypeOK
        <4>3. /\ Outcome' = [Outcome EXCEPT ![op] = OutcomeOf(op)']
              /\ \A o \in Op : o # op => (o \in Open' <=> o \in Open)
          BY <3>1, <4>1, <4>2, ElsewhereTheSame
        <4>4. v \in Ended
          BY <3>1, VerdictIs
        <4>5. op \notin Open
          BY <3>1, <3>2, <3>5 DEF Open
        <4>6. op \notin Open'
          BY <3>2, <4>1, <4>2, <4>4 DEF Open, Ended
        <4>7. Open' = Open
          BY <3>3, <4>3, <4>5, <4>6
        <4>8. executed[op] = IF p.status \in {"ok", "garbled"} THEN 1 ELSE 0
          BY <3>1 DEF EndpointInv, Account
        <4>9. CASE v = "ok"
          <5>1. OutcomeOf(op)' = "ok" /\ executed[op] = 1
            BY <3>1, <4>2, <4>8, <4>9, VerdictIs DEF OutcomeOf
          <5> QED
            BY <3>1, <4>3, <4>7, <5>1 DEF Abstract!Next, Abstract!Succeed
        <4>10. CASE v \in {"refused", "challenged"}
          <5>1. OutcomeOf(op)' = "refused" /\ executed[op] = 0
            BY <3>1, <4>2, <4>8, <4>10, VerdictIs DEF OutcomeOf
          <5> QED
            BY <3>1, <4>3, <4>5, <4>7, <5>1 DEF Abstract!Next, Abstract!BeRefused
        <4>11. CASE v = "failed"
          <5>1. OutcomeOf(op)' = "failed"
            BY <4>2, <4>11 DEF OutcomeOf
          <5> QED
            BY <3>1, <4>3, <4>7, <5>1 DEF Abstract!Next, Abstract!Fail
        <4> QED
          BY <4>4, <4>9, <4>10, <4>11 DEF Ended
      <3> QED
        BY <3>4, <3>5
    <2>4. ASSUME NEW r \in requests, Challenge(r)
          PROVE  Abstract!Next \/ UNCHANGED Abstract!vars
      <3>1. Answer(r, "challenge") /\ UNCHANGED <<call, executed>>
        BY <2>4 DEF Challenge
      <3> QED
        BY <3>1, AnswerSettles DEF Abstract!Next, Abstract!Decide, Abstract!vars
    <2>5. ASSUME NEW r \in requests, Execute(r) PROVE Abstract!Next
      <3>1. PICK status \in {"ok", "garbled"} : Answer(r, status)
        BY <2>5 DEF Execute
      <3>2. UNCHANGED call /\ executed' = [executed EXCEPT ![r.op] = @ + 1]
        BY <2>5 DEF Execute
      <3> QED
        BY <3>1, <3>2, AnswerSettles DEF Abstract!Next, Abstract!Decide
    <2>6. ASSUME NEW r \in requests, Refuse(r) PROVE Abstract!Next
      <3>1. PICK status \in {"error", "mute"} : Answer(r, status)
        BY <2>6 DEF Refuse
      <3>2. UNCHANGED <<call, executed>>
        BY <2>6 DEF Refuse
      <3> QED
        BY <3>1, <3>2, AnswerSettles DEF Abstract!Next, Abstract!Decide
    <2>7. CASE Rotate \/ UNCHANGED vars
      <3>1. UNCHANGED <<call, requests, replies, executed>>
        BY <2>7 DEF Rotate, vars
      <3>2. Outcome' = Outcome /\ Open' = Open
        BY <3>1 DEF Outcome, OutcomeOf, Open, Repeats
      <3> QED
        BY <3>1, <3>2 DEF Abstract!vars
    <2> QED
      BY <2>1, <2>2, <2>3, <2>4, <2>5, <2>6, <2>7 DEF Next, Abstract!Next
  <1> QED
    BY <1>1, <1>2, EndpointInductive, PTL DEF Spec, KeepsExchange, Abstract!Spec

=============================================================================
