------------------------- MODULE MCEndpointClient -------------------------
(* A refresh, a code exchange and a revocation at once. *)
EXTENDS EndpointClient

CONSTANTS op1, op2, op3

MCKind ==
  [op \in Op |-> CASE op = op1 -> "refresh"
                   [] op = op2 -> "code"
                   [] op = op3 -> "revoke"]

=============================================================================
