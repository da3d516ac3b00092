---------------------------- MODULE LogoutProofs ----------------------------
(***************************************************************************)
(* For any number of clients, providers, sessions and logout tokens, and    *)
(* any window, tolerance, drift and stall: a logout token is acted on once  *)
(* at each client, ends only what its provider may end, and is honoured     *)
(* neither too late nor too little.                                        *)
(***************************************************************************)
EXTENDS Logout, TLAPS

Issued(j) == token[j] # None

(* A provider stamps a token with its own clock. *)
IssuedInThePast == \A j \in JWTID : Issued(j) => token[j].iat <= time

(* What was verified is addressed to its client, was in the window then,     *)
(* and is on its way for no longer than the stall.                         *)
VerifiedOK(v) ==
  /\ Issued(v.jti)
  /\ Addressed(v.client, token[v.jti])
  /\ token[v.jti].iat <= v.at
  /\ v.at + offset - token[v.jti].iat <= Window
  /\ v.at <= time
  /\ time - v.at <= Stall

(* An acted-on token is remembered, or it is past its window for good.     *)
ReplayOK(c, j) ==
  /\ handled[c][j] <= 1
  /\ seen[c][j] # None =>
       /\ handled[c][j] = 1
       /\ Issued(j)
       /\ token[j].iat <= seen[c][j]
  /\ (handled[c][j] = 1 /\ seen[c][j] = None) =>
       /\ Issued(j)
       /\ time - token[j].iat >= Retention

(* What ended a session: a token that may, or a notification that may. *)
EndedByToken(e) ==
  /\ Issued(e.by)
  /\ token[e.by].iss = IssuerOf[e.session.client]
  /\ ClientID[e.session.client] \in token[e.by].aud
  /\ token[e.by].sid \in {None, e.session.sid}
  /\ e.session.begun - token[e.by].iat <= Window - offset + Stall

EndedByNotification(e) ==
  /\ e.by.iss = IssuerOf[e.session.client]
  /\ e.session.client \in SessionRequired => e.by.sid = e.session.sid

EndOK(e) == IF e.by \in JWTID THEN EndedByToken(e) ELSE EndedByNotification(e)

(* A token is refused for its time only once it is late.                     *)
RefusalOK(j) ==
  tooLate[j] # None =>
    /\ Issued(j)
    /\ tooLate[j] - token[j].iat > Window - Drift

LogoutInv ==
  /\ TypeOK
  /\ IssuedInThePast
  /\ \A s \in session : s.begun <= time
  /\ \A v \in verified : VerifiedOK(v)
  /\ \A c \in Client, j \in JWTID : ReplayOK(c, j)
  /\ \A e \in ended : EndOK(e)
  /\ \A j \in JWTID : RefusalOK(j)

(* The numbers of a state. *)
LEMMA Numbers ==
  ASSUME TypeOK
  PROVE  /\ time \in Int /\ offset \in Int /\ Horizon \in Int
         /\ Window \in Int /\ Tolerance \in Int /\ Drift \in Int
         /\ Stall \in Int /\ Retention \in Int
         /\ -Drift <= offset /\ offset <= Drift /\ Drift <= Tolerance
         /\ 0 <= time /\ time <= Horizon
         /\ Window + Tolerance + Stall < Retention
         /\ 0 <= Stall /\ 0 <= Drift
  BY LogoutAssumption DEF TypeOK, Instant

(* A logout token that has been issued. *)
LEMMA TokenIs ==
  ASSUME TypeOK, NEW j \in JWTID, Issued(j)
  PROVE  token[j] \in LogoutToken /\ token[j].iat \in Int /\ token[j].iat \in Instant
  <1>1. token[j] \in LogoutToken
    BY DEF TypeOK, Issued
  <1> QED
    BY <1>1, LogoutAssumption DEF LogoutToken, Instant

(* A verified token. *)
LEMMA VerifiedIs ==
  ASSUME TypeOK, NEW v \in verified
  PROVE  v.client \in Client /\ v.jti \in JWTID /\ v.at \in Int /\ v.at \in Instant
  BY LogoutAssumption DEF TypeOK, Instant

(* A token that is on its way to the store was issued less than the          *)
(* retention ago.                                                          *)
LEMMA OnTheWayIsYoung ==
  ASSUME TypeOK, NEW v \in verified, VerifiedOK(v)
  PROVE  time - token[v.jti].iat < Retention
  <1>1. v.jti \in JWTID /\ v.at \in Int
    BY VerifiedIs
  <1>3. token[v.jti].iat \in Int
    BY <1>1, TokenIs DEF VerifiedOK
  <1>2. v.at + offset - token[v.jti].iat <= Window /\ time - v.at <= Stall
    BY DEF VerifiedOK
  <1> QED
    BY <1>1, <1>2, <1>3, Numbers

(* A token that is in the window was issued less than the retention ago. *)
LEMMA InWindowIsYoung ==
  ASSUME TypeOK, NEW j \in JWTID, Issued(j), InWindow(token[j])
  PROVE  time - token[j].iat < Retention
  <1>1. token[j].iat \in Int
    BY TokenIs
  <1>2. time + offset - token[j].iat <= Window
    BY <1>1, Numbers DEF InWindow, Clock
  <1> QED
    BY <1>1, <1>2, Numbers

-----------------------------------------------------------------------------
(* A step that leaves the tokens, the clocks, the store and what is on its   *)
(* way keeps what is said of them.                                         *)
LEMMA StoreStays ==
  ASSUME LogoutInv,
         UNCHANGED <<time, offset, token, verified, seen, handled, tooLate>>
  PROVE  /\ IssuedInThePast'
         /\ \A v \in verified' : VerifiedOK(v)'
         /\ \A c \in Client, j \in JWTID : ReplayOK(c, j)'
         /\ \A j \in JWTID : RefusalOK(j)'
  BY DEF LogoutInv, IssuedInThePast, VerifiedOK, ReplayOK, RefusalOK, Issued, Addressed

(* What ended is not undone by a step that leaves the tokens that were       *)
(* issued.                                                                 *)
LEMMA EndStays ==
  ASSUME NEW e, EndOK(e), offset' = offset,
         e.by \in JWTID /\ Issued(e.by) => token'[e.by] = token[e.by]
  PROVE  EndOK(e)'
  BY DEF EndOK, EndedByToken, EndedByNotification, Issued

(* Sessions that end, and what ended them. *)
LEMMA EndTypes ==
  ASSUME TypeOK, NEW sessions, sessions \subseteq session,
         NEW by \in JWTID \cup Notification, End(sessions, by)
  PROVE  /\ session' \subseteq session
         /\ ended' \subseteq [session : Session, by : JWTID \cup Notification]
         /\ \A e \in ended' : e.session \notin session'
         /\ \A e \in ended' : e \in ended \/ (e.session \in sessions /\ e.by = by)
  BY DEF TypeOK, End

LEMMA SignInStep ==
  ASSUME LogoutInv, NEW c \in Client, SignIn(c)
  PROVE  LogoutInv'
  <1>1. PICK sub \in Subject, sid \in SID :
          /\ \A old \in session \cup {e.session : e \in ended} :
               ~(old.client = c /\ old.sid = sid)
          /\ session' = session \cup
               {[client |-> c, subject |-> sub, sid |-> sid, begun |-> time]}
    BY DEF SignIn
  <1> DEFINE s == [client |-> c, subject |-> sub, sid |-> sid, begun |-> time]
  <1>2. s \in Session
    BY DEF LogoutInv, TypeOK, Session
  <1>3. s.client = c /\ s.sid = sid /\ s.begun = time
    OBVIOUS
  <1>4. \A e \in ended : e.session # s
    BY <1>1, <1>3
  <1>5. session' = session \cup {s}
    BY <1>1
  <1> HIDE DEF s
  <1>6. UNCHANGED <<time, offset, token, verified, seen, ended, handled, tooLate>>
    BY DEF SignIn
  <1>7. TypeOK'
    BY <1>2, <1>4, <1>5, <1>6 DEF LogoutInv, TypeOK
  <1>8. \A x \in session' : x.begun <= time'
    BY <1>3, <1>5, <1>6, Numbers DEF LogoutInv
  <1>9. \A e \in ended' : EndOK(e)'
    BY <1>6, EndStays DEF LogoutInv
  <1> QED
    BY <1>6, <1>7, <1>8, <1>9, StoreStays DEF LogoutInv

LEMMA FrontChannelStep ==
  ASSUME LogoutInv, NEW c \in Client, NEW n \in Notification, FrontChannelLogout(c, n)
  PROVE  LogoutInv'
  <1> DEFINE gone == Named(c, None, n.sid)
  <1>1. /\ AcceptsNotification(c, n)
        /\ End(gone, n)
        /\ UNCHANGED <<time, offset, token, verified, seen, handled, tooLate>>
    BY DEF FrontChannelLogout
  <1>2. gone \subseteq session /\ \A s \in gone : s.client = c /\ n.sid \in {None, s.sid}
    BY DEF Named
  <1> HIDE DEF gone
  <1>3. /\ session' \subseteq session
        /\ ended' \subseteq [session : Session, by : JWTID \cup Notification]
        /\ \A e \in ended' : e.session \notin session'
        /\ \A e \in ended' : e \in ended \/ (e.session \in gone /\ e.by = n)
    BY <1>1, <1>2, EndTypes DEF LogoutInv
  <1>4. TypeOK'
    BY <1>1, <1>3 DEF LogoutInv, TypeOK
  <1>5. ASSUME NEW e \in ended' PROVE EndOK(e)'
    <2>1. CASE e \in ended
      BY <2>1, <1>1, EndStays DEF LogoutInv
    <2>2. CASE e.session \in gone /\ e.by = n
      <3>1. n \notin JWTID
        BY LogoutValues
      <3> QED
        BY <2>2, <3>1, <1>1, <1>2 DEF EndOK, EndedByNotification, AcceptsNotification
    <2> QED
      BY <2>1, <2>2, <1>3
  <1> QED
    BY <1>1, <1>3, <1>4, <1>5, StoreStays DEF LogoutInv

LEMMA LookUpStep ==
  ASSUME LogoutInv, NEW v \in verified, LookUp(v)
  PROVE  LogoutInv'
  <1> DEFINE c == v.client
             j == v.jti
             t == token[j]
             gone == Named(c, t.sub, t.sid)
  <1>1. c \in Client /\ j \in JWTID /\ VerifiedOK(v) /\ v.at \in Int
    BY VerifiedIs DEF LogoutInv
  <1>2. UNCHANGED <<time, offset, token, tooLate>> /\ verified' = verified \ {v}
    BY DEF LookUp
  <1>3. /\ IssuedInThePast'
        /\ \A x \in verified' : VerifiedOK(x)'
        /\ \A k \in JWTID : RefusalOK(k)'
    BY <1>2 DEF LogoutInv, IssuedInThePast, VerifiedOK, RefusalOK, Issued, Addressed
  <1>4. CASE seen[c][j] # None
    <2>1. UNCHANGED <<session, ended, seen, handled>>
      BY <1>4 DEF LookUp
    <2>2. TypeOK'
      BY <2>1, <1>2 DEF LogoutInv, TypeOK
    <2>3. \A d \in Client, k \in JWTID : ReplayOK(d, k)'
      BY <2>1, <1>2 DEF LogoutInv, ReplayOK, Issued
    <2>4. \A e \in ended' : EndOK(e)'
      BY <2>1, <1>2, EndStays DEF LogoutInv
    <2> QED
      BY <2>1, <2>2, <2>3, <2>4, <1>2, <1>3 DEF LogoutInv
  <1>5. CASE seen[c][j] = None
    <2>1. /\ End(gone, j)
          /\ seen' = [seen EXCEPT ![c][j] = time]
          /\ handled' = [handled EXCEPT ![c][j] = @ + 1]
      BY <1>5 DEF LookUp
    <2>2. /\ gone \subseteq session
          /\ \A s \in gone : s.client = c /\ t.sid \in {None, s.sid}
      BY DEF Named
    <2> HIDE DEF gone
    <2>3. /\ session' \subseteq session
          /\ ended' \subseteq [session : Session, by : JWTID \cup Notification]
          /\ \A e \in ended' : e.session \notin session'
          /\ \A e \in ended' : e \in ended \/ (e.session \in gone /\ e.by = j)
      BY <2>1, <2>2, <1>1, EndTypes DEF LogoutInv
    <2>4. handled[c][j] = 0
      <3>1. handled[c][j] \in Nat /\ handled[c][j] <= 1
        BY <1>1 DEF LogoutInv, TypeOK, ReplayOK
      <3>2. handled[c][j] # 1
        <4>1. time - token[j].iat < Retention
          BY <1>1, OnTheWayIsYoung DEF LogoutInv
        <4>2. token[j].iat \in Int
          BY <1>1, TokenIs DEF LogoutInv, VerifiedOK
        <4>3. handled[c][j] = 1 => time - token[j].iat >= Retention
          BY <1>1, <1>5 DEF LogoutInv, ReplayOK
        <4> QED
          BY <4>1, <4>2, <4>3, Numbers DEF LogoutInv
      <3> QED
        BY <3>1, <3>2
    <2>5. /\ seen' \in [Client -> [JWTID -> Instant \cup {None}]]
          /\ handled' \in [Client -> [JWTID -> Nat]]
          /\ seen'[c][j] = time /\ handled'[c][j] = 1
          /\ \A d \in Client, k \in JWTID :
               d # c \/ k # j => seen'[d][k] = seen[d][k] /\ handled'[d][k] = handled[d][k]
      BY <2>1, <2>4, <1>1 DEF LogoutInv, TypeOK
    <2>6. TypeOK'
      <3>1. \A d \in Client, k \in JWTID : seen'[d][k] # None => handled'[d][k] > 0
        <4>1. \A d \in Client, k \in JWTID : seen[d][k] # None => handled[d][k] > 0
          BY DEF LogoutInv, TypeOK
        <4> QED
          BY <2>5, <4>1
      <3>2. /\ verified' \subseteq [client : Client, jti : JWTID, at : Instant]
            /\ \A x \in verified' : token'[x.jti].iss = IssuerOf[x.client]
        BY <1>2 DEF LogoutInv, TypeOK
      <3>3. session' \subseteq Session
        BY <2>3 DEF LogoutInv, TypeOK
      <3>4. /\ time' \in Instant /\ offset' \in -Drift .. Drift
            /\ token' \in [JWTID -> LogoutToken \cup {None}]
            /\ tooLate' \in [JWTID -> Instant \cup {None}]
        BY <1>2 DEF LogoutInv, TypeOK
      <3> QED
        BY <2>3, <2>5, <3>1, <3>2, <3>3, <3>4 DEF TypeOK
    <2>7. \A d \in Client, k \in JWTID : ReplayOK(d, k)'
      <3>1. ReplayOK(c, j)'
        <4>1. Issued(j)' /\ token'[j].iat <= time
          BY <1>1, <1>2 DEF VerifiedOK, LogoutInv, IssuedInThePast, Issued
        <4>2. time # None
          BY LogoutValues DEF LogoutInv, TypeOK
        <4> QED
          BY <2>5, <4>1, <4>2 DEF ReplayOK
      <3>2. ASSUME NEW d \in Client, NEW k \in JWTID, d # c \/ k # j
            PROVE  ReplayOK(d, k)'
        BY <3>2, <2>5, <1>2 DEF LogoutInv, ReplayOK, Issued
      <3> QED
        BY <3>1, <3>2
    <2>8. ASSUME NEW e \in ended' PROVE EndOK(e)'
      <3>1. CASE e \in ended
        BY <3>1, <1>2, EndStays DEF LogoutInv
      <3>2. CASE e.session \in gone /\ e.by = j
        <4>1. /\ e.session.client = c
              /\ t.sid \in {None, e.session.sid}
              /\ Addressed(c, t) /\ Issued(j)
          BY <3>2, <2>2, <1>1 DEF VerifiedOK
        <4>2. e.session.begun - t.iat <= Window - offset + Stall
          <5>1. e.session \in Session /\ e.session.begun <= time
            BY <3>2, <2>2 DEF LogoutInv, TypeOK
          <5>2. e.session.begun \in Int /\ t.iat \in Int
            BY <5>1, <1>1, TokenIs, LogoutAssumption
               DEF LogoutInv, VerifiedOK, Session, Instant
          <5>3. v.at + offset - t.iat <= Window /\ time - v.at <= Stall
            BY <1>1 DEF VerifiedOK
          <5> QED
            BY <5>1, <5>2, <5>3, <1>1, Numbers DEF LogoutInv
        <4> QED
          BY <3>2, <4>1, <4>2, <1>1, <1>2 DEF EndOK, EndedByToken, Addressed, Issued
      <3> QED
        BY <3>1, <3>2, <2>3
    <2> QED
      BY <2>3, <2>6, <2>7, <2>8, <1>2, <1>3 DEF LogoutInv
  <1> QED
    BY <1>4, <1>5

LEMMA ForgetStep ==
  ASSUME LogoutInv, NEW c \in Client, NEW j \in JWTID, Forget(c, j)
  PROVE  LogoutInv'
  <1>1. /\ seen[c][j] # None
        /\ time - seen[c][j] >= Retention
        /\ seen' = [seen EXCEPT ![c][j] = None]
        /\ UNCHANGED <<time, offset, session, token, verified, ended, handled, tooLate>>
    BY DEF Forget
  <1>2. /\ seen' \in [Client -> [JWTID -> Instant \cup {None}]]
        /\ seen'[c][j] = None
        /\ \A d \in Client, k \in JWTID : d # c \/ k # j => seen'[d][k] = seen[d][k]
    BY <1>1 DEF LogoutInv, TypeOK
  <1>3. TypeOK'
    BY <1>1, <1>2 DEF LogoutInv, TypeOK
  <1>4. Issued(j) /\ time - token[j].iat >= Retention
    <2>1. Issued(j) /\ token[j].iat <= seen[c][j]
      BY <1>1 DEF LogoutInv, ReplayOK
    <2>2. seen[c][j] \in Int
      BY <1>1, LogoutAssumption DEF LogoutInv, TypeOK, Instant
    <2>3. token[j].iat \in Int
      BY <2>1, TokenIs DEF LogoutInv
    <2> QED
      BY <2>1, <2>2, <2>3, <1>1, Numbers DEF LogoutInv
  <1>5. ASSUME NEW d \in Client, NEW k \in JWTID PROVE ReplayOK(d, k)'
    <2>1. CASE d = c /\ k = j
      BY <2>1, <1>1, <1>2, <1>4 DEF LogoutInv, ReplayOK, Issued
    <2>2. CASE d # c \/ k # j
      BY <2>2, <1>1, <1>2 DEF LogoutInv, ReplayOK, Issued
    <2> QED
      BY <2>1, <2>2
  <1>6. /\ IssuedInThePast'
        /\ \A s \in session' : s.begun <= time'
        /\ \A v \in verified' : VerifiedOK(v)'
        /\ \A k \in JWTID : RefusalOK(k)'
    BY <1>1 DEF LogoutInv, IssuedInThePast, VerifiedOK, RefusalOK, Issued, Addressed
  <1>7. \A e \in ended' : EndOK(e)'
    BY <1>1, EndStays DEF LogoutInv
  <1> QED
    BY <1>3, <1>5, <1>6, <1>7 DEF LogoutInv

(* A token that is refused is refused because it is late. *)
LEMMA RefusedIsLate ==
  ASSUME TypeOK, IssuedInThePast, NEW j \in JWTID, Issued(j), ~InWindow(token[j])
  PROVE  time - token[j].iat > Window - Drift
  <1>1. token[j].iat \in Int /\ token[j].iat <= time
    BY TokenIs DEF IssuedInThePast
  <1>2. token[j].iat <= Clock + Tolerance
    BY <1>1, Numbers DEF Clock
  <1>3. ~(Clock - token[j].iat <= Window)
    BY <1>2 DEF InWindow
  <1> QED
    BY <1>1, <1>3, Numbers DEF Clock

LEMMA VerifyStep ==
  ASSUME LogoutInv, NEW c \in Client, NEW j \in JWTID, VerifyBackChannelLogout(c, j)
  PROVE  LogoutInv'
  <1>1. /\ Issued(j) /\ Addressed(c, token[j])
        /\ UNCHANGED <<time, offset, session, token, seen, ended, handled>>
    BY DEF VerifyBackChannelLogout, Issued
  <1>2. /\ IssuedInThePast'
        /\ \A s \in session' : s.begun <= time'
        /\ \A d \in Client, k \in JWTID : ReplayOK(d, k)'
    BY <1>1 DEF LogoutInv, IssuedInThePast, ReplayOK, Issued
  <1>3. \A e \in ended' : EndOK(e)'
    BY <1>1, EndStays DEF LogoutInv
  <1>4. CASE InWindow(token[j])
    <2> PICK v : v = [client |-> c, jti |-> j, at |-> time]
      OBVIOUS
    <2>1. verified' = verified \cup {v} /\ tooLate' = tooLate
      BY <1>4 DEF VerifyBackChannelLogout
    <2>2. /\ v \in [client : Client, jti : JWTID, at : Instant]
          /\ v.client = c /\ v.jti = j /\ v.at = time
      BY DEF LogoutInv, TypeOK
    <2>3. VerifiedOK(v)'
      <3>1. token[j].iat \in Int /\ token[j].iat <= time
        BY <1>1, TokenIs DEF LogoutInv, IssuedInThePast
      <3>2. time + offset - token[j].iat <= Window
        BY <1>4, <3>1, Numbers DEF InWindow, Clock, LogoutInv
      <3>3. time <= time /\ time - time <= Stall
        BY Numbers DEF LogoutInv
      <3> QED
        BY <1>1, <2>2, <3>1, <3>2, <3>3 DEF VerifiedOK, Issued, Addressed
    <2>4. \A x \in verified' : VerifiedOK(x)'
      BY <1>1, <2>1, <2>3 DEF LogoutInv, VerifiedOK, Issued, Addressed
    <2>5. TypeOK'
      BY <1>1, <2>1, <2>2 DEF LogoutInv, TypeOK, Addressed
    <2>6. \A k \in JWTID : RefusalOK(k)'
      BY <1>1, <2>1 DEF LogoutInv, RefusalOK, Issued
    <2> QED
      BY <1>2, <1>3, <2>4, <2>5, <2>6 DEF LogoutInv
  <1>5. CASE ~InWindow(token[j])
    <2>1. /\ verified' = verified
          /\ tooLate' = [tooLate EXCEPT ![j] = IF @ = None THEN time ELSE @]
      BY <1>5 DEF VerifyBackChannelLogout
    <2>2. /\ tooLate' \in [JWTID -> Instant \cup {None}]
          /\ \A k \in JWTID : tooLate'[k] = tooLate[k] \/ (k = j /\ tooLate'[k] = time)
      BY <2>1 DEF LogoutInv, TypeOK
    <2>3. TypeOK'
      BY <1>1, <2>1, <2>2 DEF LogoutInv, TypeOK
    <2>4. \A x \in verified' : VerifiedOK(x)'
      BY <1>1, <2>1 DEF LogoutInv, VerifiedOK, Issued, Addressed
    <2>5. \A k \in JWTID : RefusalOK(k)'
      <3>1. time - token[j].iat > Window - Drift
        BY <1>1, <1>5, RefusedIsLate DEF LogoutInv
      <3> QED
        BY <1>1, <2>2, <3>1 DEF LogoutInv, RefusalOK, Issued
    <2> QED
      BY <1>2, <1>3, <2>3, <2>4, <2>5 DEF LogoutInv
  <1> QED
    BY <1>4, <1>5

LEMMA IssueStep ==
  ASSUME LogoutInv, NEW j \in JWTID, Issue(j)
  PROVE  LogoutInv'
  <1>1. PICK t \in LogoutToken : t.iat = time /\ token' = [token EXCEPT ![j] = t]
    BY DEF Issue
  <1>2. /\ ~Issued(j)
        /\ UNCHANGED <<time, offset, session, verified, seen, ended, handled, tooLate>>
    BY DEF Issue, Issued
  <1>3. /\ token' \in [JWTID -> LogoutToken \cup {None}]
        /\ token'[j] = t
        /\ \A k \in JWTID : k # j => token'[k] = token[k]
    BY <1>1 DEF LogoutInv, TypeOK
  <1>4. \A k \in JWTID : Issued(k) => token'[k] = token[k] /\ Issued(k)'
    BY <1>2, <1>3 DEF Issued
  <1>5. \A v \in verified : v.jti \in JWTID /\ Issued(v.jti)
    BY VerifiedIs DEF LogoutInv, VerifiedOK
  <1>6. TypeOK'
    BY <1>2, <1>3, <1>4, <1>5 DEF LogoutInv, TypeOK
  <1>7. IssuedInThePast'
    <2>1. time <= time
      BY Numbers DEF LogoutInv
    <2> QED
      BY <1>1, <1>2, <1>3, <2>1 DEF LogoutInv, IssuedInThePast, Issued
  <1>8. \A v \in verified' : VerifiedOK(v)'
    BY <1>2, <1>4, <1>5 DEF LogoutInv, VerifiedOK, Addressed
  <1>9. \A c \in Client, k \in JWTID : ReplayOK(c, k)'
    BY <1>2, <1>4 DEF LogoutInv, ReplayOK
  <1>10. \A e \in ended' : EndOK(e)'
    BY <1>2, <1>4, EndStays DEF LogoutInv
  <1>11. \A k \in JWTID : RefusalOK(k)'
    BY <1>2, <1>4 DEF LogoutInv, RefusalOK
  <1> QED
    BY <1>2, <1>6, <1>7, <1>8, <1>9, <1>10, <1>11 DEF LogoutInv

(* Time passes only while nothing has been on its way for the whole stall.  *)
LEMMA TickStep ==
  ASSUME LogoutInv, Tick
  PROVE  LogoutInv'
  <1>1. /\ time < Horizon
        /\ \A v \in verified : time - v.at < Stall
        /\ time' = time + 1
        /\ UNCHANGED <<offset, session, token, verified, seen, ended, handled, tooLate>>
    BY DEF Tick
  <1>2. time' \in Instant /\ time < time' /\ time' \in Int
    BY <1>1, Numbers DEF LogoutInv, Instant
  <1>3. TypeOK'
    BY <1>1, <1>2 DEF LogoutInv, TypeOK
  <1>4. IssuedInThePast'
    <2>1. ASSUME NEW j \in JWTID, Issued(j) PROVE token[j].iat <= time'
      <3>1. token[j].iat \in Int /\ token[j].iat <= time
        BY <2>1, TokenIs DEF LogoutInv, IssuedInThePast
      <3> QED
        BY <3>1, <1>2, Numbers DEF LogoutInv
    <2> QED
      BY <2>1, <1>1 DEF IssuedInThePast, Issued
  <1>5. \A s \in session' : s.begun <= time'
    <2>1. ASSUME NEW s \in session PROVE s.begun <= time'
      <3>1. s.begun \in Int /\ s.begun <= time
        BY LogoutAssumption DEF LogoutInv, TypeOK, Session, Instant
      <3> QED
        BY <3>1, <1>2, Numbers DEF LogoutInv
    <2> QED
      BY <2>1, <1>1
  <1>6. ASSUME NEW v \in verified' PROVE VerifiedOK(v)'
    <2>1. VerifiedOK(v) /\ v.at \in Int /\ v.at <= time /\ time - v.at < Stall
      BY <1>1, VerifiedIs DEF LogoutInv, VerifiedOK
    <2>2. v.at <= time' /\ time' - v.at <= Stall
      BY <2>1, <1>1, Numbers DEF LogoutInv
    <2> QED
      BY <2>1, <2>2, <1>1 DEF VerifiedOK, Issued, Addressed
  <1>7. ASSUME NEW c \in Client, NEW j \in JWTID PROVE ReplayOK(c, j)'
    <2>1. ASSUME Issued(j), time - token[j].iat >= Retention
          PROVE  time' - token[j].iat >= Retention
      BY <2>1, <1>1, TokenIs, Numbers DEF LogoutInv
    <2> QED
      BY <2>1, <1>1 DEF LogoutInv, ReplayOK, Issued
  <1>8. \A e \in ended' : EndOK(e)'
    BY <1>1, EndStays DEF LogoutInv
  <1>9. \A j \in JWTID : RefusalOK(j)'
    BY <1>1 DEF LogoutInv, RefusalOK, Issued
  <1> QED
    BY <1>3, <1>4, <1>5, <1>6, <1>7, <1>8, <1>9 DEF LogoutInv

-----------------------------------------------------------------------------
LEMMA LogoutStarts == Init => LogoutInv
  <1> SUFFICES ASSUME Init PROVE LogoutInv
    OBVIOUS
  <1>1. TypeOK
    BY LogoutAssumption DEF Init, TypeOK, Instant
  <1>2. \A c \in Client, j \in JWTID : ReplayOK(c, j)
    BY DEF Init, ReplayOK
  <1> QED
    BY <1>1, <1>2 DEF Init, LogoutInv, IssuedInThePast, Issued, RefusalOK

LEMMA LogoutSteps == LogoutInv /\ [Next]_vars => LogoutInv'
  <1> SUFFICES ASSUME LogoutInv, [Next]_vars PROVE LogoutInv'
    OBVIOUS
  <1>1. ASSUME NEW c \in Client, SignIn(c) PROVE LogoutInv'
    BY <1>1, SignInStep
  <1>2. ASSUME NEW c \in Client, NEW n \in Notification, FrontChannelLogout(c, n)
        PROVE  LogoutInv'
    BY <1>2, FrontChannelStep
  <1>3. ASSUME NEW c \in Client, NEW j \in JWTID, VerifyBackChannelLogout(c, j)
        PROVE  LogoutInv'
    BY <1>3, VerifyStep
  <1>4. ASSUME NEW c \in Client, NEW j \in JWTID, Forget(c, j) PROVE LogoutInv'
    BY <1>4, ForgetStep
  <1>5. ASSUME NEW v \in verified, LookUp(v) PROVE LogoutInv'
    BY <1>5, LookUpStep
  <1>6. ASSUME NEW j \in JWTID, Issue(j) PROVE LogoutInv'
    BY <1>6, IssueStep
  <1>7. CASE Tick
    BY <1>7, TickStep
  <1>8. CASE UNCHANGED vars
    <2>1. UNCHANGED <<time, offset, token, verified, seen, handled, tooLate>>
          /\ UNCHANGED <<session, ended>>
      BY <1>8 DEF vars
    <2>2. TypeOK'
      BY <2>1 DEF LogoutInv, TypeOK
    <2>3. \A e \in ended' : EndOK(e)'
      BY <2>1, EndStays DEF LogoutInv
    <2> QED
      BY <2>1, <2>2, <2>3, StoreStays DEF LogoutInv
  <1> QED
    BY <1>1, <1>2, <1>3, <1>4, <1>5, <1>6, <1>7, <1>8 DEF Next

THEOREM LogoutInvariant == Spec => []LogoutInv
  BY LogoutStarts, LogoutSteps, PTL DEF Spec

(* The types, with what they say of the store, the sessions and the tokens   *)
(* on their way (logout.go:89-127).                                        *)
THEOREM LogoutTypes == Spec => []TypeOK
  <1>1. LogoutInv => TypeOK
    BY DEF LogoutInv
  <1> QED
    BY <1>1, LogoutInvariant, PTL

(* A client acts on a logout token at most once, if it remembers JWTIDs for  *)
(* longer than the window, the tolerance and the stall ("Replay detection   *)
(* for JWTID remains caller-owned persistent state", logout.go:89-127).     *)
THEOREM LogoutIsOnce == Spec => []LoggedOutOnce
  <1>1. LogoutInv => LoggedOutOnce
    BY DEF LogoutInv, ReplayOK, LoggedOutOnce
  <1> QED
    BY <1>1, LogoutInvariant, PTL

(* Only its own provider ends a session, and a notification ends no session  *)
(* but the one it had to name (logout.go:113, 140-149).                     *)
THEOREM LogoutIsTheProviders == Spec => []EndedByItsProvider
  <1>1. LogoutInv => EndedByItsProvider
    BY DEF LogoutInv, EndOK, EndedByToken, EndedByNotification, EndedByItsProvider
  <1> QED
    BY <1>1, LogoutInvariant, PTL

(* No late token ends a later session, and no prompt one is refused          *)
(* (logout.go:121-125).                                                     *)
THEOREM LogoutWindow == Spec => []WindowIsSharp
  <1>1. LogoutInv => WindowIsSharp
    BY DEF LogoutInv, EndOK, EndedByToken, RefusalOK, WindowIsSharp,
           LateLogoutIsBounded, PromptIsHonoured
  <1> QED
    BY <1>1, LogoutInvariant, PTL

=============================================================================
