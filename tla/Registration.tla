---------------------------- MODULE Registration ----------------------------
(***************************************************************************)
(* Dynamic registration (registration.go): RegisterClient creates a client *)
(* at the provider and returns its management credentials; Read-, Update-  *)
(* and DeleteClientRegistration use them.  A provider may issue a new      *)
(* registration access token with any answer, and then takes that one only *)
(* (RFC 7592).  The library keeps nothing; the caller keeps one            *)
(* registration and adopts what an answer says.                            *)
(*                                                                         *)
(* A call may fail after its request has been executed, or before, and the *)
(* request be executed later.  Left out: the initial access token, the     *)
(* client secret and its expiry, bounds on lengths.                        *)
(***************************************************************************)
EXTENDS Integers

CONSTANTS
  AllowInsecureLoopback,  \* RegistrationConfig.AllowInsecureLoopback
  URI,                    \* what an answer may give as the management URI:
                          \* "https", "loopback" or "none"
  Client,                 \* bound: clients the provider may create, 1 .. n
  MaxToken,               \* bound: registration access tokens it may issue
  MaxVersion,             \* bound: changes of the metadata
  None

VARIABLES
  server,   \* server[k]: the provider's record of client k
  issued,   \* how many tokens it has issued: 1, 2, ...
  version,  \* how many versions of metadata have been submitted
  record,   \* the caller's registration
  call,     \* the call that is under way
  late,     \* requests whose call is over and that may still be executed
  failed,   \* whether a call failed after it had sent its request
  deleted   \* history: the clients the caller was told are deleted

vars == <<server, issued, version, record, call, late, failed, deleted>>
provider == <<server, issued>>

Token == 0 .. MaxToken
Version == 0 .. MaxVersion

Nowhere == [live |-> FALSE, token |-> 0, version |-> 0]

ServerRecord == [live : BOOLEAN, token : Token, version : Version]

Registered == [client : Client, token : Token, uri : URI, version : Version]

Method == {"POST", "GET", "PUT", "DELETE"}

(* client and token are those the request is made with. *)
Request == [method : Method, client : Client \cup {None}, token : Token,
            version : Version]

(* status: the one of success for the method, or another; readable: JSON     *)
(* within bounds.                                                           *)
Answer == [success : BOOLEAN, readable : BOOLEAN, client : Client \cup {None},
           token : Token, uri : URI \cup {None}, version : Version]

Idle == [request |-> None, answer |-> None]

TypeOK ==
  /\ server \in [Client -> ServerRecord]
  /\ issued \in Token /\ version \in Version
  /\ record \in Registered \cup {None}
  /\ call \in [request : Request, answer : Answer \cup {None}] \cup {Idle}
  /\ late \subseteq Request
  /\ failed \in BOOLEAN
  /\ deleted \subseteq Client
  /\ record # None /\ record.uri # "none" => record.token # 0

Init ==
  /\ server = [k \in Client |-> Nowhere]
  /\ issued = 0 /\ version = 0
  /\ record = None
  /\ call = Idle
  /\ late = {} /\ failed = FALSE /\ deleted = {}

-----------------------------------------------------------------------------
(* What the library decides.                                               *)

(* validateNetworkURL, of a URI whose scheme is all that matters here. *)
ValidURI(uri, loopback) == uri = "https" \/ (loopback /\ uri = "loopback")

(* Fault: credentials are not looked at before they are used. *)
RegistersUnchecked(a) == a.success /\ a.readable

(* RegisterClient: a management URI needs a token and has to be valid. *)
Registers(a) ==
  /\ a.success /\ a.readable
  /\ a.uri # "none" => a.token # 0 /\ ValidURI(a.uri, AllowInsecureLoopback)

(* manageClientRegistration, before it sends: the loopback is not allowed. *)
Manageable(r) == r.token # 0 /\ ValidURI(r.uri, FALSE)

(* Fault: a client that the provider does not let in is gone. *)
DeletesWhatever(a) == TRUE

Deletes(a) == a.success

(* Fault: the caller gets back what it submitted. *)
Submitted(a) == [token |-> record.token, version |-> call.request.version]

(* Read and update return the provider's representation, as it is. *)
Represented(a) == [token |-> a.token, version |-> a.version]

-----------------------------------------------------------------------------
(* Calls.                                                                  *)

Send(method, r, v) ==
  /\ call = Idle
  /\ call' = [request |-> [method |-> method, version |-> v,
                           client |-> IF r = None THEN None ELSE r.client,
                           token |-> IF r = None THEN 0 ELSE r.token],
              answer |-> None]
  /\ UNCHANGED <<server, issued, record, late, failed, deleted>>

Submit(method, r) ==
  /\ version < MaxVersion
  /\ version' = version + 1
  /\ Send(method, r, version')

RegisterClient == record = None /\ Submit("POST", None)

ReadClientRegistration ==
  /\ record # None /\ Manageable(record)
  /\ Send("GET", record, 0) /\ UNCHANGED version

UpdateClientRegistration ==
  /\ record # None /\ Manageable(record)
  /\ Submit("PUT", record)

DeleteClientRegistration ==
  /\ record # None /\ Manageable(record)
  /\ Send("DELETE", record, 0) /\ UNCHANGED version

(* The call returns an error; the caller keeps what it has. *)
Fails ==
  /\ failed' = TRUE
  /\ UNCHANGED <<record, deleted>>

Return ==
  /\ call.answer # None
  /\ LET a == call.answer IN
     \/ /\ call.request.method = "POST"
        /\ IF Registers(a)
           THEN /\ record' = [client |-> a.client, token |-> a.token, uri |-> a.uri,
                              version |-> a.version]
                /\ UNCHANGED <<failed, deleted>>
           ELSE Fails
     \/ /\ call.request.method \in {"GET", "PUT"}
        /\ IF a.success /\ a.readable
           THEN /\ record' = [record EXCEPT !.token = Represented(a).token,
                                            !.version = Represented(a).version]
                /\ UNCHANGED <<failed, deleted>>
           ELSE Fails
     \/ /\ call.request.method = "DELETE"
        /\ IF Deletes(a)
           THEN /\ record' = None
                /\ deleted' = deleted \cup {call.request.client}
                /\ UNCHANGED failed
           ELSE Fails
  /\ call' = Idle
  /\ UNCHANGED <<server, issued, version, late>>

(* Timeout, cancellation or a broken connection, at any point. *)
Break ==
  /\ call # Idle
  /\ call' = Idle
  /\ late' = IF call.answer = None THEN late \cup {call.request} ELSE late
  /\ Fails
  /\ UNCHANGED <<server, issued, version>>

-----------------------------------------------------------------------------
(* External: the provider.                                                 *)

Authorized(q) == server[q.client].live /\ server[q.client].token = q.token

(* A fresh token, or the one in use. *)
NextToken(old, t) ==
  \/ t = old /\ UNCHANGED issued
  \/ issued < MaxToken /\ t = issued + 1 /\ issued' = t

(* The provider executes q and has an answer: client k, token t, version.    *)
Executes(q, k, t) ==
  \/ /\ q.method = "POST"
     /\ k \in Client /\ server[k] = Nowhere
     /\ \A j \in Client : j < k => server[j] # Nowhere
     /\ NextToken(0, t)
     /\ server' = [server EXCEPT ![k] = [live |-> TRUE, token |-> t,
                                         version |-> q.version]]
  \/ /\ q.method \in {"GET", "PUT"} /\ k = q.client /\ Authorized(q)
     /\ NextToken(q.token, t)
     /\ server' = [server EXCEPT ![k].token = t,
                                 ![k].version = IF q.method = "PUT" THEN q.version
                                                                    ELSE @]
  \/ /\ q.method = "DELETE" /\ k = q.client /\ Authorized(q)
     /\ NextToken(q.token, t) /\ t = q.token
     /\ server' = [server EXCEPT ![k].live = FALSE]

Execute ==
  /\ call # Idle /\ call.answer = None
  /\ \E k \in Client, t \in Token, u \in URI, r \in BOOLEAN :
       /\ Executes(call.request, k, t)
       /\ call' = [call EXCEPT !.answer =
                     [success |-> TRUE, readable |-> r, client |-> k, token |-> t,
                      uri |-> u, version |-> server'[k].version]]
  /\ UNCHANGED <<version, record, late, failed, deleted>>

(* An error, of whatever kind: not authorized, not now. *)
Refuse ==
  /\ call # Idle /\ call.answer = None
  /\ call' = [call EXCEPT !.answer =
                [success |-> FALSE, readable |-> TRUE, client |-> None, token |-> 0,
                 uri |-> None, version |-> 0]]
  /\ UNCHANGED <<provider, version, record, late, failed, deleted>>

ExecuteLate(q) ==
  /\ q \in late
  /\ late' = late \ {q}
  /\ \/ \E k \in Client, t \in Token : Executes(q, k, t)
     \/ UNCHANGED provider
  /\ UNCHANGED <<version, record, call, failed, deleted>>

Next ==
  \/ RegisterClient \/ ReadClientRegistration
  \/ UpdateClientRegistration \/ DeleteClientRegistration
  \/ Return \/ Break \/ Execute \/ Refuse
  \/ \E q \in late : ExecuteLate(q)

Spec == Init /\ [][Next]_vars

-----------------------------------------------------------------------------
(* A client that the caller was told is deleted is gone, and no late update  *)
(* brings it back (registration.go:155-160).                                 *)
DeletedIsGone == \A k \in deleted : ~server[k].live

(* As long as no call has failed, the caller knows every client there is,    *)
(* holds the token that the provider takes now and the metadata that are in  *)
(* force, however often the token changed hands (registration.go:76-102,     *)
(* 161-172).                                                                *)
CallerKnows ==
  (~failed /\ call = Idle) =>
    \A k \in Client :
      server[k].live =>
        /\ record # None /\ record.client = k
        /\ record.token = server[k].token /\ record.version = server[k].version

(* What the caller believes of its clients is so: of those that live, and of *)
(* those that it has deleted (registration.go:76-102, 155-172).              *)
CallerIsRight == CallerKnows /\ DeletedIsGone

(* registration.go:119: "DeleteClientRegistration deletes a dynamically      *)
(* registered client": with the management credentials that RegisterClient   *)
(* has accepted, the client can be managed.                                  *)
AcceptedIsManageable ==
  (record # None /\ record.uri # "none") => Manageable(record)

=============================================================================
