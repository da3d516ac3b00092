-------------------------- MODULE AttemptVault --------------------------
(***************************************************************************)
(* Rows of protected attempts in the table of the caller, which the        *)
(* library does not own.  The table may mix the columns of two rows, lose  *)
(* bytes, or hand over the wrong row; completion then opens whatever it is *)
(* given (api.go:218-233) under whatever state the browser presents.  The  *)
(* authorization URL that Begin returns is open for anybody to see.        *)
(***************************************************************************)
EXTENDS AttemptProtection, Integers

CONSTANTS
  Attempt,     \* the calls of Begin
  Secret,      \* the 256-bit values the entropy source can return
  Context,     \* the attempt contexts that can be sealed, opaque here
  Tape,        \* Tape[a]: the material the entropy source returns to call a
  MaxChanges   \* bound: how often the table changes a row behind the library

Values(m) == {m.state, m.nonce, m.pkceVerifier}

S256Challenge(verifier) == [s256 |-> verifier]

(* Fault: the challenge is the verifier itself. *)
ShownPlain(m) == {m.state, m.nonce, m.pkceVerifier}

(* What the authorization URL shows of the material. *)
Shown(m) == {m.state, m.nonce, S256Challenge(m.pkceVerifier)}

(* Independent 256-bit reads do not collide across attempts.  Within one    *)
(* read they may: the code checks that itself.                              *)
ASSUME TapeAssumption ==
  /\ Tape \in [Attempt -> Material(Secret)]
  /\ \A a, b \in Attempt : a # b => Values(Tape[a]) \cap Values(Tape[b]) = {}

(* A hash of a value is none of the values.                                 *)
ASSUME ChallengeAssumption == \A v \in Secret : S256Challenge(v) \notin Secret
ASSUME MaxChangesAssumption == MaxChanges \in Nat

VARIABLES
  begun,       \* the calls of Begin that returned an Authorization
  context,     \* context[a]: the context Begin sealed for a
  shown,       \* history: what the URLs of Begin have shown
  table,       \* table[a]: the row stored for a
  changes,     \* how often the table has changed a row
  recovered    \* every result recovery has returned so far

vars == <<begun, context, shown, table, changes, recovered>>

Envelope == [intact : BOOLEAN, key : Secret \X Field,
             aad : [sha256 : Secret], plain : Secret \cup Context]
Row == [stateHash : [sha256 : Secret], box : [Field -> Envelope]]

Result(m, ctx) == [material |-> m, context |-> ctx]

TypeOK ==
  /\ begun \subseteq Attempt
  /\ context \in [begun -> Context]
  /\ shown \subseteq Secret \cup [s256 : Secret]
  /\ table \in [begun -> Row]
  /\ changes \in 0 .. MaxChanges
  /\ recovered \subseteq [material : [state : Secret,
                                      nonce : Secret \cup Context,
                                      pkceVerifier : Secret \cup Context],
                          context : Secret \cup Context]

Init ==
  /\ begun = {}
  /\ context = <<>>
  /\ shown = {}
  /\ table = <<>>
  /\ changes = 0
  /\ recovered = {}

(* BeginContext: draw, refuse a repeated value, seal, return; the caller     *)
(* stores the row.                                                           *)
Begin(a) ==
  /\ a \notin begun
  /\ Distinct(Tape[a])
  /\ begun' = begun \cup {a}
  /\ shown' = shown \cup Shown(Tape[a])
  /\ \E ctx \in Context :
       /\ context' = [b \in begun' |-> IF b = a THEN ctx ELSE context[b]]
       /\ table' = [b \in begun' |-> IF b = a THEN Protect(Tape[a], ctx)
                                              ELSE table[b]]
  /\ UNCHANGED <<changes, recovered>>

(* The table puts column g of row b into column f of row a. *)
MoveColumn(a, f, b, g) ==
  /\ changes < MaxChanges
  /\ table' = [table EXCEPT ![a].box[f] = table[b].box[g]]
  /\ changes' = changes + 1
  /\ UNCHANGED <<begun, context, shown, recovered>>

(* The table files the columns of row a under the hash of row b. *)
MoveHash(a, b) ==
  /\ changes < MaxChanges
  /\ table' = [table EXCEPT ![a].stateHash = table[b].stateHash]
  /\ changes' = changes + 1
  /\ UNCHANGED <<begun, context, shown, recovered>>

(* Bytes of a column change. *)
Damage(a, f) ==
  /\ changes < MaxChanges
  /\ table' = [table EXCEPT ![a].box[f].intact = FALSE]
  /\ changes' = changes + 1
  /\ UNCHANGED <<begun, context, shown, recovered>>

(* complete() opens the row it is given under the state it is given. *)
Recover(a, state) ==
  /\ RecoversAttempt(state, table[a])
  /\ recovered' = recovered \cup
       {Result(LoginMaterial(state, table[a]), AttemptContext(table[a]))}
  /\ UNCHANGED <<begun, context, shown, table, changes>>

Next ==
  \/ \E a \in Attempt : Begin(a)
  \/ \E a, b \in begun, f, g \in Field : MoveColumn(a, f, b, g)
  \/ \E a, b \in begun : MoveHash(a, b)
  \/ \E a \in begun, f \in Field : Damage(a, f)
  \/ \E a \in begun, state \in Secret : Recover(a, state)

Spec == Init /\ [][Next]_vars

-----------------------------------------------------------------------------
(* Whatever the table did, recovery returns all of one attempt or nothing:  *)
(* the state, the nonce and the verifier of one Begin together with the     *)
(* context sealed by that same Begin (login_recovery.go:14-17).             *)
RecoveredIsWhole ==
  \A r \in recovered :
    \E a \in begun : r = Result(Tape[a], context[a])

(* What Begin sealed can be opened: a row the table left alone is recovered *)
(* under its own state, and under no other.                                 *)
UntouchedRowRecovers ==
  \A a \in begun : table[a] = Protect(Tape[a], context[a]) =>
    \A state \in Secret :
      RecoversAttempt(state, table[a]) <=> state = Tape[a].state

(* The verifier is kept from the front channel: no authorization URL, of its *)
(* own attempt or of another, has shown the verifier of an attempt, nor one  *)
(* that recovery hands to the code exchange, whatever the table did          *)
(* (authorization_url.go:55-68).                                            *)
VerifierStaysBack ==
  /\ \A a \in begun : Tape[a].pkceVerifier \notin shown
  /\ \A r \in recovered : r.material.pkceVerifier \notin shown

=============================================================================
