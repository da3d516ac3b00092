------------------------------- MODULE Logout -------------------------------
(***************************************************************************)
(* Logout that comes from the provider (logout.go): VerifyBackChannelLogout *)
(* admits a signed logout token, ParseFrontChannelLogout reads a            *)
(* notification that any page can load.  The library keeps nothing; the    *)
(* application keeps its sessions and, for each client, the JWTIDs it has  *)
(* seen, for Retention.                                                    *)
(*                                                                         *)
(* The network may deliver a logout token late, often, or to the wrong     *)
(* client; providers may share keys, client IDs, subjects and session IDs. *)
(*                                                                         *)
(* Left to TokenPurpose: the other JWTs of a provider.  Left out:           *)
(* EndSessionURL, which only composes a URL, and the grammar of requests   *)
(* and of the events claim.                                                *)
(***************************************************************************)
EXTENDS Integers, FiniteSets

CONSTANTS
  Client,           \* the application's clients
  IssuerOf,         \* the provider of each
  ClientID,         \* the client ID of each, at its provider
  KeyOf,            \* the signing key of each provider
  SessionRequired,  \* the clients whose provider always names a session
  Subject, SID,     \* what providers call users and sessions
  JWTID,            \* bound: the logout tokens that are ever issued
  Window,           \* ten minutes
  Tolerance,        \* one minute
  Drift,            \* Config.Clock is off by no more than this
  Stall,            \* bound: from the verification to the replay store
  Retention,        \* how long the application remembers a JWTID
  Horizon,          \* bound: the last instant of the model
  None

Issuer == {IssuerOf[c] : c \in Client}
ID == {ClientID[c] : c \in Client}

ASSUME LogoutAssumption ==
  /\ SessionRequired \subseteq Client
  /\ Window \in Nat /\ Tolerance \in Nat /\ Stall \in Nat
  /\ Drift \in Nat /\ Drift <= Tolerance
  /\ Horizon \in Nat
  /\ Retention \in Nat /\ Window + Tolerance + Stall < Retention

VARIABLES
  time,      \* the provider's clock
  offset,    \* what Config.Clock is ahead of it
  session,   \* the sessions of the application
  token,     \* the logout tokens that have been issued
  verified,  \* tokens that are verified and not yet looked up
  seen,      \* by client and JWTID, when it was remembered
  ended,     \* history: the sessions that ended, and why
  handled,   \* history: by JWTID, by whom and how often it was acted on
  tooLate    \* history: when a token was first refused for its time

vars == <<time, offset, session, token, verified, seen, ended, handled, tooLate>>

Instant == 0 .. Horizon

Session == [client : Client, subject : Subject, sid : SID, begun : Instant]

(* A logout token names a subject, a session or both. *)
LogoutToken ==
  {t \in [iss : Issuer, aud : SUBSET ID, iat : Instant,
          sub : Subject \cup {None}, sid : SID \cup {None}] :
     t.sub # None \/ t.sid # None}

(* A front-channel notification: its iss and its sid. *)
Notification == [iss : Issuer, sid : SID \cup {None}]

(* None is no instant, and no JWTID is a notification. *)
ASSUME LogoutValues ==
  /\ None \notin Instant
  /\ JWTID \cap Notification = {}

TypeOK ==
  /\ time \in Instant
  /\ offset \in -Drift .. Drift
  /\ session \subseteq Session
  /\ token \in [JWTID -> LogoutToken \cup {None}]
  /\ verified \subseteq [client : Client, jti : JWTID, at : Instant]
  /\ seen \in [Client -> [JWTID -> Instant \cup {None}]]
  /\ ended \subseteq [session : Session, by : JWTID \cup Notification]
  /\ handled \in [Client -> [JWTID -> Nat]]
  /\ tooLate \in [JWTID -> Instant \cup {None}]
  /\ \A c \in Client, j \in JWTID : seen[c][j] # None => handled[c][j] > 0
  /\ \A e \in ended : e.session \notin session
  /\ \A v \in verified : token[v.jti].iss = IssuerOf[v.client]

Init ==
  /\ time = 0
  /\ offset \in -Drift .. Drift
  /\ session = {}
  /\ token = [j \in JWTID |-> None]
  /\ verified = {}
  /\ seen = [c \in Client |-> [j \in JWTID |-> None]]
  /\ ended = {}
  /\ handled = [c \in Client |-> [j \in JWTID |-> 0]]
  /\ tooLate = [j \in JWTID |-> None]

-----------------------------------------------------------------------------
(* What the library decides.                                               *)

Clock == time + offset

(* Fault: a token may be of any age. *)
NotFromTheFuture(t) == t.iat <= Clock + Tolerance

(* Fault: the provider's clock must not be ahead. *)
WithoutTolerance(t) == t.iat <= Clock /\ Clock - t.iat <= Window

InWindow(t) == t.iat <= Clock + Tolerance /\ Clock - t.iat <= Window

(* Fault: the signature is taken for the issuer. *)
SignedFor(c, t) ==
  /\ KeyOf[t.iss] = KeyOf[IssuerOf[c]]
  /\ ClientID[c] \in t.aud

(* VerifyBackChannelLogout up to the time: key, issuer, audience. *)
Addressed(c, t) ==
  /\ KeyOf[t.iss] = KeyOf[IssuerOf[c]]
  /\ t.iss = IssuerOf[c]
  /\ ClientID[c] \in t.aud

(* Fault: a notification without a session is always fine. *)
AcceptsAnySession(c, n) == n.iss = IssuerOf[c]

(* ParseFrontChannelLogout. *)
AcceptsNotification(c, n) ==
  /\ n.iss = IssuerOf[c]
  /\ c \in SessionRequired => n.sid # None

-----------------------------------------------------------------------------
(* External: the application.                                              *)

SignIn(c) ==
  /\ \E sub \in Subject, sid \in SID :
       LET s == [client |-> c, subject |-> sub, sid |-> sid, begun |-> time]
       IN /\ \A old \in session \cup {e.session : e \in ended} :
               ~(old.client = c /\ old.sid = sid)
          /\ session' = session \cup {s}
  /\ UNCHANGED <<time, offset, token, verified, seen, ended, handled, tooLate>>

(* Which sessions of a client a subject and a session ID name. *)
Named(c, sub, sid) ==
  {s \in session : /\ s.client = c
                   /\ sub \in {None, s.subject}
                   /\ sid \in {None, s.sid}}

End(sessions, by) ==
  /\ session' = session \ sessions
  /\ ended' = ended \cup {[session |-> s, by |-> by] : s \in sessions}

(* An unknown JWTID is remembered and its sessions end, in one transaction. *)
LookUp(v) ==
  /\ verified' = verified \ {v}
  /\ IF seen[v.client][v.jti] = None
     THEN LET t == token[v.jti]
          IN /\ End(Named(v.client, t.sub, t.sid), v.jti)
             /\ seen' = [seen EXCEPT ![v.client][v.jti] = time]
             /\ handled' = [handled EXCEPT ![v.client][v.jti] = @ + 1]
     ELSE UNCHANGED <<session, ended, seen, handled>>
  /\ UNCHANGED <<time, offset, token, tooLate>>

Forget(c, j) ==
  /\ seen[c][j] # None
  /\ time - seen[c][j] >= Retention
  /\ seen' = [seen EXCEPT ![c][j] = None]
  /\ UNCHANGED <<time, offset, session, token, verified, ended, handled, tooLate>>

-----------------------------------------------------------------------------
(* The library's calls.                                                    *)

(* VerifyBackChannelLogout; the clock is read after the keys have arrived.  *)
VerifyBackChannelLogout(c, j) ==
  /\ token[j] # None
  /\ Addressed(c, token[j])
  /\ IF InWindow(token[j])
     THEN /\ verified' = verified \cup {[client |-> c, jti |-> j, at |-> time]}
          /\ UNCHANGED tooLate
     ELSE /\ tooLate' = [tooLate EXCEPT ![j] = IF @ = None THEN time ELSE @]
          /\ UNCHANGED verified
  /\ UNCHANGED <<time, offset, session, token, seen, ended, handled>>

(* ParseFrontChannelLogout, of whatever a page loads; the application ends  *)
(* what is named.                                                           *)
FrontChannelLogout(c, n) ==
  /\ AcceptsNotification(c, n)
  /\ End(Named(c, None, n.sid), n)
  /\ UNCHANGED <<time, offset, token, verified, seen, handled, tooLate>>

-----------------------------------------------------------------------------
(* External: providers and the clock.                                      *)

(* A provider tells some of its clients; its own clock stamps the token. *)
Issue(j) ==
  /\ token[j] = None
  /\ \E t \in LogoutToken :
       /\ t.iat = time
       /\ token' = [token EXCEPT ![j] = t]
  /\ UNCHANGED <<time, offset, session, verified, seen, ended, handled, tooLate>>

Tick ==
  /\ time < Horizon
  /\ \A v \in verified : time - v.at < Stall
  /\ time' = time + 1
  /\ UNCHANGED <<offset, session, token, verified, seen, ended, handled, tooLate>>

Next ==
  \/ \E c \in Client : SignIn(c)
  \/ \E c \in Client, n \in Notification : FrontChannelLogout(c, n)
  \/ \E c \in Client, j \in JWTID : VerifyBackChannelLogout(c, j) \/ Forget(c, j)
  \/ \E v \in verified : LookUp(v)
  \/ \E j \in JWTID : Issue(j)
  \/ Tick

Spec == Init /\ [][Next]_vars

-----------------------------------------------------------------------------
(* With a replay store that outlasts the accepted window, the tolerance and  *)
(* the way to the store, a client acts on a logout token at most once,      *)
(* however often it arrives ("Replay detection for JWTID remains             *)
(* caller-owned persistent state", logout.go:89-127).                       *)
LoggedOutOnce == \A c \in Client, j \in JWTID : handled[c][j] <= 1

(* A session that a logout token ended was one of the issuer and the client *)
(* that the token is for, even where providers share keys and names; and a   *)
(* notification that had to name a session has ended no other one            *)
(* (logout.go:113, 140-149).                                                *)
EndedByItsProvider ==
  \A e \in ended :
    IF e.by \in JWTID
    THEN /\ token[e.by].iss = IssuerOf[e.session.client]
         /\ ClientID[e.session.client] \in token[e.by].aud
         /\ token[e.by].sid \in {None, e.session.sid}
    ELSE /\ e.by.iss = IssuerOf[e.session.client]
         /\ e.session.client \in SessionRequired => e.by.sid = e.session.sid

(* A logout token that comes late ends no session that began later than the *)
(* window after it was issued (logout.go:121-125).                          *)
LateLogoutIsBounded ==
  \A e \in ended :
    e.by \in JWTID =>
      e.session.begun - token[e.by].iat <= Window - offset + Stall

(* A logout token is refused for its time only when it is late: if it comes *)
(* before the window less the drift has passed, it is admitted, whichever    *)
(* clock is ahead (logout.go:121-123).                                      *)
PromptIsHonoured ==
  \A j \in JWTID :
    tooLate[j] # None => tooLate[j] - token[j].iat > Window - Drift

(* The window is sharp on both sides: no late token ends a later session,   *)
(* and no prompt one is refused (logout.go:121-125).                        *)
WindowIsSharp == LateLogoutIsBounded /\ PromptIsHonoured

=============================================================================
