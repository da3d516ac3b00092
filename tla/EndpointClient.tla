-------------------------- MODULE EndpointClient --------------------------
(***************************************************************************)
(* The requests of one client to the endpoints of its provider, and the    *)
(* one retry it makes: doAuthenticatedJSON (endpoint_client.go:108-147)    *)
(* repeats a pushed, code or refresh request once, with the nonce of a     *)
(* "use_dpop_nonce" answer; Revoke (token.go:12-37) and UserInfo           *)
(* (exchange.go:176-255) never repeat theirs.                              *)
(*                                                                         *)
(* The question is what the client may conclude: whether the provider has  *)
(* executed the operation or not, and how often.  The provider rotates its *)
(* DPoP nonces whenever it likes.  A message may take arbitrarily long, so *)
(* it may arrive after the client has given up; one that never arrives is  *)
(* one that stays on its way.                                              *)
(***************************************************************************)
EXTENDS Integers

CONSTANTS
  Op,             \* operations, each one call of the library
  Kind,           \* Kind[op]: the endpoint the operation goes to
  DPoP,           \* the client has a DPoP signer
  NonceRequired,  \* the endpoints that accept only proofs with the current nonce
  MaxNonce        \* bound: how many nonces the provider goes through

KindType == {"par", "code", "refresh", "revoke", "userinfo"}

ASSUME OpAssumption == Kind \in [Op -> KindType]
ASSUME ProviderAssumption ==
  /\ DPoP \in BOOLEAN
  /\ NonceRequired \subseteq KindType
  /\ MaxNonce \in Nat \ {0}

VARIABLES
  call,       \* call[op]: where the client is with op
  requests,   \* requests on their way to the provider
  replies,    \* answers on their way to the client
  nonce,      \* the nonce the provider accepts now
  executed    \* executed[op]: how often the provider has executed op

vars == <<call, requests, replies, nonce, executed>>

(* 0 is the absent nonce of a first request. *)
Nonce == 0 .. MaxNonce
Try   == {0, 1}   \* the loop of doAuthenticatedJSON
Ended == {"ok", "refused", "challenged", "failed"}

Request == [op : Op, try : Try, nonce : Nonce]
Reply   == [op : Op, try : Try,
            status : {"ok", "garbled", "error", "mute", "challenge"},
            nonce : Nonce]

TypeOK ==
  /\ call \in [Op -> [phase : {"idle", "waiting"} \cup Ended,
                      try : Try, nonce : Nonce]]
  /\ requests \subseteq Request
  /\ replies \subseteq Reply
  /\ nonce \in 1 .. MaxNonce
  /\ executed \in [Op -> 0 .. 2]

Init ==
  /\ call = [op \in Op |-> [phase |-> "idle", try |-> 0, nonce |-> 0]]
  /\ requests = {}
  /\ replies = {}
  /\ nonce = 1
  /\ executed = [op \in Op |-> 0]

-----------------------------------------------------------------------------
(* The client.                                                             *)

(* Operations that go through doAuthenticatedJSON. *)
Retries(op) == Kind[op] \in {"par", "code", "refresh"}

(* Fault: the retry is sent without the nonce it is for. *)
TransmitWithoutNonce(op, try, n) ==
  /\ call' = [call EXCEPT ![op] = [phase |-> "waiting", try |-> try, nonce |-> 0]]
  /\ requests' = requests \cup {[op |-> op, try |-> try, nonce |-> 0]}

(* A request leaves, with a proof that carries nonce n (0: none). *)
Transmit(op, try, n) ==
  /\ call' = [call EXCEPT ![op] = [phase |-> "waiting", try |-> try, nonce |-> n]]
  /\ requests' = requests \cup {[op |-> op, try |-> try, nonce |-> n]}

End(op, outcome) ==
  /\ call' = [call EXCEPT ![op].phase = outcome]
  /\ UNCHANGED requests

Start(op) ==
  /\ call[op].phase = "idle"
  /\ Transmit(op, 0, 0)
  /\ UNCHANGED <<replies, nonce, executed>>

(* Fault: every challenge is answered, not only the first. *)
RepeatsAgain(op) == DPoP /\ Retries(op)

(* The challenge that is answered with a second request. *)
Repeats(op) == call[op].try = 0 /\ DPoP /\ Retries(op)

(* Fault: a success that cannot be read is reported like an error answer. *)
JSONVerdictOfUnreadable(status) ==
  CASE status = "ok"                     -> "ok"
    [] status \in {"garbled", "error"}   -> "refused"
    [] status = "challenge"              -> "challenged"
    [] status = "mute"                   -> "failed"

(* What the caller is told when an answer ends the operation.               *)
(* doAuthenticatedJSON returns the provider's error code; an error without  *)
(* one ("mute") and a success it cannot use are failures.                   *)
JSONVerdict(status) ==
  CASE status = "ok"                     -> "ok"
    [] status = "error"                  -> "refused"
    [] status = "challenge"              -> "challenged"
    [] status \in {"garbled", "mute"}    -> "failed"

(* Revoke does not look at the body of a success. *)
RevokeVerdict(status) ==
  IF status \in {"ok", "garbled"} THEN "ok" ELSE "failed"

UserInfoVerdict(status) == IF status = "ok" THEN "ok" ELSE "failed"

Verdict(op, status) ==
  CASE Retries(op)           -> JSONVerdict(status)
    [] Kind[op] = "revoke"   -> RevokeVerdict(status)
    [] Kind[op] = "userinfo" -> UserInfoVerdict(status)

(* The answer to the request that op waits for.  A challenge after the      *)
(* retry, or without a signer, is an error like another.                    *)
Receive(op, p) ==
  /\ call[op].phase = "waiting"
  /\ p.op = op /\ p.try = call[op].try
  /\ replies' = replies \ {p}
  /\ \/ /\ p.status = "challenge" /\ Repeats(op)
        /\ Transmit(op, call[op].try + 1, p.nonce)
     \/ /\ ~(p.status = "challenge" /\ Repeats(op))
        /\ End(op, Verdict(op, p.status))
  /\ UNCHANGED <<nonce, executed>>

(* Fault: a request that got no answer in time is sent again. *)
TimeOutRepeats(op) ==
  /\ call[op].phase = "waiting"
  /\ Transmit(op, call[op].try, call[op].nonce)
  /\ UNCHANGED <<replies, nonce, executed>>

(* Fault: the client waits for ever for the answer to a second request. *)
TimeOutOnce(op) ==
  /\ call[op].phase = "waiting"
  /\ call[op].try = 0
  /\ End(op, "failed")
  /\ UNCHANGED <<replies, nonce, executed>>

(* Ten seconds, a broken connection, or the caller's context. *)
TimeOut(op) ==
  /\ call[op].phase = "waiting"
  /\ End(op, "failed")
  /\ UNCHANGED <<replies, nonce, executed>>

-----------------------------------------------------------------------------
(* External: the provider.                                                 *)

Answer(r, status) ==
  /\ requests' = requests \ {r}
  /\ replies' = replies \cup
       {[op |-> r.op, try |-> r.try, status |-> status, nonce |-> nonce]}

Current(r) == Kind[r.op] \in NonceRequired => r.nonce = nonce

Challenge(r) ==
  /\ ~Current(r)
  /\ Answer(r, "challenge")
  /\ UNCHANGED <<call, nonce, executed>>

(* A code is redeemed once; nothing else is limited.  The answer may be one *)
(* that the client cannot use: unreadable, oversized, of another type, or   *)
(* with tokens it does not accept.                                         *)
Execute(r) ==
  /\ Current(r)
  /\ Kind[r.op] = "code" => executed[r.op] = 0
  /\ executed' = [executed EXCEPT ![r.op] = @ + 1]
  /\ \E status \in {"ok", "garbled"} : Answer(r, status)
  /\ UNCHANGED <<call, nonce>>

Refuse(r) ==
  /\ Current(r)
  /\ \E status \in {"error", "mute"} : Answer(r, status)
  /\ UNCHANGED <<call, nonce, executed>>

Rotate ==
  /\ nonce < MaxNonce
  /\ nonce' = nonce + 1
  /\ UNCHANGED <<call, requests, replies, executed>>

-----------------------------------------------------------------------------
Next ==
  \/ \E op \in Op : Start(op) \/ TimeOut(op)
  \/ \E op \in Op, p \in replies : Receive(op, p)
  \/ \E r \in requests : Challenge(r) \/ Execute(r) \/ Refuse(r)
  \/ Rotate

Spec == Init /\ [][Next]_vars

(* The transport's timeout runs out whatever the provider does. *)
FairSpec == Spec /\ \A op \in Op : WF_vars(TimeOut(op))

-----------------------------------------------------------------------------
(* Whatever is lost, late or rotated, the provider executes an operation at *)
(* most once: the second request is only ever sent when the first one was   *)
(* answered by a challenge (endpoint_client.go:132).                        *)
ExecutedOnce == \A op \in Op : executed[op] <= 1

(* The client may believe its answers.  Success: the provider has executed. *)
(* An error that carries the provider's error code: it has not, and it      *)
(* never will, no request being left on its way.  Only a failure leaves it  *)
(* open.                                                                   *)
AnswerIsTrue ==
  \A op \in Op :
    /\ call[op].phase = "ok" => executed[op] = 1
    /\ call[op].phase \in {"refused", "challenged"} =>
         /\ executed[op] = 0
         /\ \A r \in requests : r.op # op

(* A nonce challenge is fatal only if the provider has moved on since: with  *)
(* a signer, the request that failed on a challenge carried a nonce of the  *)
(* provider, the one it had asked for, and the provider has another by now  *)
(* (endpoint_client.go:131-134, 241).                                      *)
ChallengeIsAnswered ==
  DPoP => \A op \in Op : call[op].phase = "challenged" =>
    call[op].nonce \in 1 .. nonce - 1

(* Every operation ends. *)
EveryOperationEnds ==
  \A op \in Op : call[op].phase = "waiting" ~> call[op].phase \in Ended

-----------------------------------------------------------------------------
(* The state of Exchange that a state of this module stands for: an         *)
(* operation is open until its last request has come to the provider.       *)
OutcomeOf(op) ==
  CASE call[op].phase = "waiting"    -> "asking"
    [] call[op].phase = "challenged" -> "refused"
    [] OTHER                         -> call[op].phase

Outcome == [op \in Op |-> OutcomeOf(op)]

Open ==
  {op \in Op :
     \/ call[op].phase = "idle"
     \/ \E r \in requests : r.op = op
     \/ /\ call[op].phase = "waiting" /\ Repeats(op)
        /\ \E p \in replies : p.op = op /\ p.status = "challenge"}

Abstract == INSTANCE Exchange WITH outcome <- Outcome, open <- Open

(* With all its requests, nonces and late answers, an operation is one        *)
(* exchange: the provider decides it once, and what the caller is told is    *)
(* what was decided (endpoint_client.go:108-147, token.go:12-37).            *)
KeepsExchange == Abstract!Spec

=============================================================================
