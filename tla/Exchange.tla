----------------------------- MODULE Exchange -----------------------------
(***************************************************************************)
(* What one operation with the provider is to the code that asks for it,   *)
(* with nothing of requests, nonces and retries: the provider decides it   *)
(* once, at any time, even after the caller has given up; success and      *)
(* refusal tell what it has decided, and failure tells nothing.            *)
(* EndpointClient implements it.                                           *)
(***************************************************************************)
EXTENDS Naturals

CONSTANT Op

VARIABLES
  outcome,   \* outcome[op]: what the caller knows
  open,      \* the operations that the provider may still execute
  executed   \* executed[op]: how often it has

vars == <<outcome, open, executed>>

Init ==
  /\ outcome = [op \in Op |-> "idle"]
  /\ open = Op
  /\ executed = [op \in Op |-> 0]

Ask(op) ==
  /\ outcome[op] = "idle"
  /\ outcome' = [outcome EXCEPT ![op] = "asking"]
  /\ UNCHANGED <<open, executed>>

(* The provider executes or refuses. *)
Decide(op) ==
  /\ outcome[op] \in {"asking", "failed"} /\ op \in open
  /\ open' = open \ {op}
  /\ executed' \in {executed, [executed EXCEPT ![op] = @ + 1]}
  /\ UNCHANGED outcome

Succeed(op) ==
  /\ outcome[op] = "asking" /\ executed[op] = 1
  /\ outcome' = [outcome EXCEPT ![op] = "ok"]
  /\ UNCHANGED <<open, executed>>

BeRefused(op) ==
  /\ outcome[op] = "asking" /\ op \notin open /\ executed[op] = 0
  /\ outcome' = [outcome EXCEPT ![op] = "refused"]
  /\ UNCHANGED <<open, executed>>

(* The caller gives up, and may leave something to be executed or not. *)
Fail(op) ==
  /\ outcome[op] = "asking"
  /\ outcome' = [outcome EXCEPT ![op] = "failed"]
  /\ open' \in {open, open \ {op}}
  /\ UNCHANGED executed

Next ==
  \E op \in Op : Ask(op) \/ Decide(op) \/ Succeed(op) \/ BeRefused(op) \/ Fail(op)

Spec == Init /\ [][Next]_vars

=============================================================================
