------------------------------ MODULE MCLogout ------------------------------
(* Two tenants of one provider: two issuers that share a key and names. *)
EXTENDS Logout, TLC

CONSTANTS c1, c2, i1, i2, id, key

TenantOf == (c1 :> i1) @@ (c2 :> i2)
SameID == [c \in Client |-> id]
SameKey == (i1 :> key) @@ (i2 :> key)

=============================================================================
