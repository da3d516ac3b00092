------------------------ MODULE AttemptProtection ------------------------
(***************************************************************************)
(* How the library seals one login attempt into the row its caller stores, *)
(* and how it opens that row again (login_material.go, login_protection.go,*)
(* login_recovery.go, attempt_context.go).                                 *)
(*                                                                         *)
(* Cryptography is symbolic.  A hash is injective.  An AES-GCM envelope    *)
(* remembers the key it was sealed with, the additional data it            *)
(* authenticates and its plaintext, and opens only under that key and that *)
(* data.  An envelope with "intact" FALSE is one that any change of bytes  *)
(* has damaged: a wrong version or length, or a tag that does not verify.  *)
(***************************************************************************)

(* The three sealed columns of a row.  The HMAC label from which the key of *)
(* a column is derived is as distinct as the column's name.                 *)
Field == {"nonce", "pkceVerifier", "context"}

(* What one read of the entropy source returns: state, nonce, verifier.    *)
Material(S) == [state : S, nonce : S, pkceVerifier : S]

(* Fault: the row is filed under the browser state itself. *)
StateHashIsState(state) == state

(* SHA-256 of the browser state: the lookup key of the row. *)
StateHash(state) == [sha256 |-> state]

(* Fault: one key for all the columns of a row. *)
DeriveKeyWithoutLabel(state, label) == <<state, "login">>

(* The key of a column: HMAC-SHA-256 of its label under the state. *)
DeriveKey(state, label) == <<state, label>>

(* Fault: nonce and verifier are only compared with the state. *)
DistinctFromState(m) == m.state # m.nonce /\ m.state # m.pkceVerifier

(* The repeat check of generateLoginMaterial, which protectLoginMaterial,   *)
(* recoverLoginMaterial and the authorization URL make again.               *)
Distinct(m) ==
  /\ m.state # m.nonce
  /\ m.state # m.pkceVerifier
  /\ m.nonce # m.pkceVerifier

Seal(state, label, plaintext) ==
  [intact |-> TRUE,
   key    |-> DeriveKey(state, label),
   aad    |-> StateHash(state),
   plain  |-> plaintext]

(* The format checks and the GCM tag, with the key and the hash computed    *)
(* from the presented state.                                                *)
Opens(envelope, state, label) ==
  /\ envelope.intact
  /\ envelope.key = DeriveKey(state, label)
  /\ envelope.aad = StateHash(state)

(* Fault: every column is sealed under the label of the nonce. *)
ColumnUnderOneLabel(m, ctx, f) ==
  Seal(m.state, "nonce", CASE f = "nonce"        -> m.nonce
                           [] f = "pkceVerifier" -> m.pkceVerifier
                           [] f = "context"      -> ctx)

(* The column f that protectLoginMaterial and sealAttemptContext seal for   *)
(* material m and context ctx.                                              *)
Column(m, ctx, f) ==
  Seal(m.state, f, CASE f = "nonce"        -> m.nonce
                     [] f = "pkceVerifier" -> m.pkceVerifier
                     [] f = "context"      -> ctx)

(* The ProtectedAttempt that Begin returns. *)
Protect(m, ctx) ==
  [stateHash |-> StateHash(m.state),
   box       |-> [f \in Field |-> Column(m, ctx, f)]]

(* recoverLoginMaterial: what it returns, and when it returns it. *)
LoginMaterial(state, row) ==
  [state        |-> state,
   nonce        |-> row.box["nonce"].plain,
   pkceVerifier |-> row.box["pkceVerifier"].plain]

RecoversLoginMaterial(state, row) ==
  /\ row.stateHash = StateHash(state)
  /\ Opens(row.box["nonce"], state, "nonce")
  /\ Opens(row.box["pkceVerifier"], state, "pkceVerifier")
  /\ Distinct(LoginMaterial(state, row))

(* openAttemptContext: when the sealed context opens, and its value. *)
OpensAttemptContext(state, row) ==
  /\ row.stateHash = StateHash(state)
  /\ Opens(row.box["context"], state, "context")

AttemptContext(row) == row.box["context"].plain

(* The first half of complete(): both have to open before anything of the  *)
(* attempt is used.                                                        *)
RecoversAttempt(state, row) ==
  /\ RecoversLoginMaterial(state, row)
  /\ OpensAttemptContext(state, row)

=============================================================================
