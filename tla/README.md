# TLA+ specifications of gotth-oidc

`pkg/oidc` is a Go library for OpenID Connect relying parties. An application
calls `New` once per provider, `BeginContext` for every login, sends the browser
to the URL it gets, stores the *protected attempt* it gets with it, and later
calls `Complete`, `CompleteResponse` or `CompleteTokens` with what came back and
the stored row. The library keeps no state of its own between these calls: the
table of attempts, the browser, the provider and the clock are all somebody
else's. What makes it hard is therefore what happens *around* it: several
attempts at several issuers in one browser, rows and responses that are
combined in ways nobody wrote a test for, calls that stop at the network up to
six times on their way, configuration that changes between the two halves of a
login, and a provider that answers late, twice, or not at all.

This directory holds specifications of that behaviour, configurations that
model-check them with TLC, and proofs that TLAPS checks. Line numbers refer to
`src/pkg/oidc/` unless a path says otherwise.

## Contents

1. [Inventory of the system](#inventory-of-the-system)
2. [The modules](#the-modules)
3. [How the modules correspond to the code](#how-the-modules-correspond-to-the-code)
4. [What is checked](#what-is-checked)
5. [What is proved](#what-is-proved)
6. [Where code and documents disagree](#where-code-and-documents-disagree)
7. [What is not modelled](#what-is-not-modelled)
8. [Plan](#plan)

## Inventory of the system

| Component | Files | State it keeps | Operations |
|---|---|---|---|
| Attempt protection | `login_material.go`, `login_protection.go`, `login_recovery.go`, `attempt_context.go` | none; produces and opens the row the caller stores | generate, protect, seal context, recover, open context |
| Login flow | `api.go`, `authorization_url.go`, `exchange.go` | local variables of each call, across its network stops | `BeginContext`, `Complete`, `CompleteResponse`, `CompleteTokens` |
| Endpoint client | `endpoint_client.go` | the nonce of the one retry | PAR, code exchange, refresh |
| Token custody | `api.go`, `token.go` | none; the caller keeps the token set | `Refresh`, `Revoke`, `DPoPProof` |
| Callback parsing | `callback.go` | none | `ParseCallback`, `validateResponseMode` |
| JARM | `jose.go` | none | `verifyAuthorizationResponseJWT` |
| Identity claims | `identity_claims.go`, `exchange.go:91-101` | none | merge UserInfo, admit claims |
| Options and URL | `config.go`, `authorization_url.go` | none | validate options, build the URL |
| Provider discovery | `provider.go`, `config.go` | the immutable `Client` | `New` |
| WebFinger | `discovery.go` | none | `DiscoverIssuer` |
| Logout | `logout.go` | none; the replay store is the caller's | `EndSessionURL`, `VerifyBackChannelLogout`, `ParseFrontChannelLogout` |
| Dynamic registration | `registration.go` | none; the caller keeps the registration token | register, read, update, delete |
| JOSE adapters | `jose.go` | keys of the caller | sign, decrypt, thumbprint |

How they interact. `New` produces a `Client` that nothing changes afterwards;
all components read it. `BeginContext` runs attempt protection, then builds the
URL and, with PAR, stops once at the PAR endpoint through the endpoint client.
`complete` verifies a JWT response (stop: signing keys), runs recovery, checks
the attempt's sealed context against the client and the response, redeems the
code through the endpoint client (stop: token endpoint, up to two requests),
verifies the ID token (stop: its keys), asks for UserInfo if the context says so
(stop, and another one for the keys of a signed UserInfo), and admits the claims. Calls share only the `Client` and its HTTP client, so the
interesting interleavings are of calls, browsers, rows and providers, not of
goroutines on shared memory.

What makes each component correct:

- **Attempt protection.** Recovery returns one attempt as it was begun, or
  nothing; the verifier stays out of the front channel; a row that was left
  alone opens.
- **Login flow.** An identity is returned only for a session that was opened
  for this attempt, at the issuer the attempt was made for, under the policy it
  was begun with; codes and verifiers do not reach the wrong issuer; every call
  returns.
- **Endpoint client.** An operation is executed at most once although it may be
  sent twice; success and refusal tell the truth; a nonce challenge is answered.
- **Token custody.** A refresh token that the provider honours is in the row or on its
  way there, unless a call has failed, or a sign-out has emptied the row while a refresh
  was replacing the token it revoked; an expiry is not late by more than its call
  takes, and not early.
- **Callback, JARM.** Two decoders, one grammar, and a consumer that takes what
  they let through; a response is accepted for a limited time.
- **Options and URL.** A provider that requires pushed requests acts on what the
  application asked for and nothing else, whatever the browser does to the URL. With any
  other provider the login fails unless the `max_age` and the ACR that were asked for hold.
- **Identity claims.** An email is admitted only if the party that named it
  also verified it.
- **Discovery.** Every request goes to an endpoint that the policy admits for its
  kind, with a credential that fits; a client that was admitted works.
- **Logout.** A token of another purpose, issuer, client or time is never taken for
  a logout token, and one logout token is acted on once.
- **Registration.** Without a failure the caller's record is the provider's; what it
  was told is deleted stays deleted.

What is hard to test, and where it bites, is listed under `hazards` in
`PROJECT.json`, with the properties that cover it.

## The modules

| Module | What it is |
|---|---|
| `AttemptProtection` | operators: how one attempt is sealed and opened |
| `AttemptVault` | attempts in a table that mixes up, mislabels and damages what it stores |
| `LoginFlow` | the login flow with clients, issuers, calls, and a front channel |
| `LoginPromise` | the abstract specification: what an application is promised |
| `EndpointClient` | requests to provider endpoints and the DPoP nonce retry |
| `Exchange` | the abstract specification: what one operation with the provider is to whoever asks for it |
| `IdentityClaims` | how two documents become one profile |
| `TokenCustody` | refresh, revocation and expiry: one row, several workers, rotation, crashes |
| `Freshness` | the clocks of one completion: `max_age`, the JARM window, assertions |
| `TokenPurpose` | every kind of JWT of a provider at every verifier of the library |
| `Callback` | the two decoders of an authorization response and their consumer |
| `AuthorizationRequest` | an authorization request from its options through the browser and back |
| `Logout` | logout from the provider: tenants, late and repeated tokens, the replay store |
| `Registration` | dynamic registration and its management credentials |
| `Provider` | from WebFinger through `New` to the requests of a client |
| `MCLoginFlow`, `MCEndpointClient`, `MCTokenCustody`, `MCFreshness`, `MCLogout` | finite instances of one module each |
| `MCBrowser` | a finite instance of `AttemptVault`, `AuthorizationRequest` and `Callback`: what goes out to the browser and comes back |
| `MCDocuments` | of `TokenPurpose` and `IdentityClaims`: what the documents of a provider are taken for |
| `MCConfiguration` | of `Provider` and `Registration`: what precedes a login |
| `LoginFlowProofs`, `EndpointClientProofs`, `TokenCustodyProofs`, `FreshnessProofs`, `LogoutProofs` | theorems about the module of that name |
| `BrowserProofs`, `DocumentsProofs`, `ConfigurationProofs` | theorems about `MCBrowser`, `MCDocuments`, `MCConfiguration` and the modules they put together |

`AttemptVault` and `LoginFlow` both extend `AttemptProtection`. The vault shows
that whatever a table does to its rows, recovery returns whole attempts or
nothing; `LoginFlow` therefore lets calls pick any row of any attempt, but
leaves the rows as they were sealed. `LoginFlow` instantiates `LoginPromise`
under a refinement mapping. `EndpointClient` opens up what `LoginFlow` treats
as one step, the network exchange: that a failure there may mean anything, that
success and refusal may be believed, and that it ends. `LoginFlow` relies on
nothing more than that: `TokensRefused` may happen whatever the provider did.
`IdentityClaims` opens up the return of an identity: `LoginFlow` says whose claims
and whose policy meet there, `IdentityClaims` what comes of them.

The other modules each open up one thing that `LoginFlow` keeps fixed. `Provider`
says how its constant `Config` comes about, and `AuthorizationRequest` how its
`Offer` travels. `Callback` refines "a response is what `ParseCallback` returns",
`Freshness` adds the clocks to `Complete` … `Admit`, `TokenPurpose` admits JWTs that
are not ID tokens and ID tokens that are not for one client. `TokenCustody` begins
where `CompleteTokens` ends; one `asking` there is one operation of
`EndpointClient`, of which it uses what `Exchange` promises: decided once, perhaps after
the caller has given up, and a failure may mean anything. `EndpointClient` instantiates
`Exchange` under a refinement mapping.
They are separate modules because no property needs two of them, and because their
product could not be checked. Where one configuration checks several of them
(`MCBrowser`, `MCDocuments`, `MCConfiguration`), it checks their *sum*: the variable
`part` says which of them a behaviour is one of, and the others rest. Nothing is
lost by that, since they share no state, and nothing is claimed about their
interaction, of which the code has none beyond the values that pass between them.

Operators whose comment begins with "Fault" are not part of the system. Each
is a plausible mistake in the definition below it; replacing that definition by
it must make a named property fail, which shows that the property depends on
the code it is about. They are listed under `mutants` in `PROJECT.json`.

## How the modules correspond to the code

`map` in `PROJECT.json` lists the source lines of each definition. In outline:

**AttemptProtection / AttemptVault.** A row is a `ProtectedAttempt`: the hash of
the state and three sealed columns (nonce, PKCE verifier, context). Cryptography
is symbolic: SHA-256 and HMAC are injective, an AES-GCM envelope remembers its
key, additional data and plaintext and opens only under both. The distinct HMAC
labels are the column names. The context column is sealed by another function,
with a deterministic GCM nonce; at this level of abstraction that makes no
difference, because the key is used once. `Begin` is `BeginContext` up to the
row; `Recover` is the part of `complete()` that opens it (`api.go:218-233`).
`MoveColumn`, `MoveHash` and `Damage` are the table: any column of any row may
land in any column of any other. The material that an entropy read returns is
the constant `Tape`; it may repeat values *within* one read, because the code
checks for that (`login_material.go:36`), but different reads have no value in common.
`shown` is everything the URLs of `Begin` have shown of their material: state, nonce and
the S256 challenge (`authorization_url.go:59-68`).

**LoginFlow.** A variable per place where state lives: `phase` and `origin` are
an attempt from `BeginContext` to its URL; `granted` is the provider's memory of
which session stands behind a code; `frame[k]` is the local variables of call
`k` of `complete()` while it waits for the network; `sent` and `admitted` record
what went to token endpoints and what was returned. One action is the stretch of
code between two network stops:

| Action | Code |
|---|---|
| `Begin`, `PushAnswered` | `BeginContext`, `initialAuthorizationURLWithOptions`, `pushAuthorizationRequest` |
| `SignIn` (external) | a user signs in, or is refused, at an authorization endpoint |
| `Complete` | `complete()` to its first stop: the keys for a JWT response, or the token endpoint, or an error |
| `JARMVerified`, `JARMRefused` | `verifyAuthorizationResponseJWT`, then recovery, the context checks and the code exchange (`api.go:206-259`) |
| `TokensArrive`, `TokensRefused` | `verifyIDToken`, nonce, `validateIDTokenBinding` (`exchange.go:65-90`) and, without UserInfo, the return |
| `UserInfoArrives`, `UserInfoRefused` | `fetchUserInfo` and the return |

A `Client` is what `New` built from one configuration; two clients stand for two
providers, or for one application before and after a change of configuration.
`Config[c]` holds what the flow reads of it. A response is what `ParseCallback`
returns. A JWT response is named by the code inside it and reveals its fields
only to `Opened`, which `complete()` reaches after verification. An ID token is
named by the session it was issued for: its nonce, audience, issuer, subject and
ACR are those of that session. Rows are never consumed: that one row is
completed at most once is the caller's duty (`api.go:173-175`), and no property
below relies on it.

The environment is as unhelpful as the constants let it be. A URL that carries
its parameters in the open may be answered by another issuer (`SignIn`); an
issuer outside `Careful` answers a token request with *any* token ever issued;
with `FrontChannel = "scrambled"` the fields of direct responses are recombined
arbitrarily and JWTs change carriers.

**EndpointClient.** `call[op]` is one call of the library; `requests` and
`replies` are messages under way. A message may take arbitrarily long, so it may
arrive after the client gave up; a lost one is one that never arrives. `Start`,
`Receive` and `TimeOut` are the client. `Receive` with a challenge to a first
request sends the second one with the nonce of the answer
(`endpoint_client.go:131-134`); everything else ends the call with the verdict
of the function that made it: `doAuthenticatedJSON` returns the provider's error
code, `Revoke` ignores the body of a success, UserInfo reports any failure
alike. The provider executes, refuses or challenges each request once, and
rotates its nonce at will. It is assumed to challenge, or to answer with an
error, only without having executed, and to send a well-formed nonce with its
challenge; a challenge without one is, in the code, an error answer like any
other.

**IdentityClaims.** One login from the verified ID token on. A claim is absent, a
value, or malformed, which stands for everything the code refuses whatever the
policy. `Merge` is a UserInfo answer for the right subject (`exchange.go:91-101`),
`FetchFails` any failure of that request, `Validate` is
`validateIdentityClaimsWithPolicy`: a malformed claim or a missing required one
refuses the login, an unverified email is only dropped.

**TokenCustody.** `call[w]` is the call a worker is in: `asking` until the provider
answers, `answered` until `performTokenRequest` has read it, `verifying` at the stops
after the answer (`Stops`: the keys of the ID token, and for a login also UserInfo and the
keys of a signed UserInfo: `exchange.go:124`, `197`, `228`), `returned` until the caller has stored the result. `Return`
is the rest of `Refresh` (`api.go:303-315`) or of `complete()`; `Abandon` is an error at
any stop or a crash, and leaves a request that was sent in `late`, to be executed or
not. `Store` is what `RefreshRequest` asks of the caller (`api.go:277-278`): the row is
replaced only if it still holds the token the refresh was made with. `SignOut` drops the
row under the same condition; `signedOut` remembers for which token. If a refresh that
overlaps it has already replaced that token at the provider, the caller then has no row for
what the refresh returns: all calls have succeeded and the provider still honours a token
that nobody holds. `NothingLiveIsForgotten` names this case, and says that it is the only
one without a failure. The provider
honours its newest refresh token only, may answer without a new one, and revokes as
RFC 7009 says. `Duration` is `time.Duration(n) * time.Second` in two's complement.
The family revocation of some providers, which kills the newest token when an older
one is used, is not modelled: it can only lose more.

**Freshness.** `Config.Clock` is the provider's clock plus an offset. `complete()` reads it
before the keys of a JWT response (`call.started`) and again before the exchange
(`call.now`); every later decision uses that second reading. Each network stop may take
`Timeout`, and there may be five after it: the exchange, its retry (`Challenge`), the keys of
the ID token (`verify`), UserInfo, and the keys of a signed UserInfo (`userinfokeys`). The
machine's own clock, `wall`, is off by another offset: by it the library that verifies ID
tokens, which is not given `Config.Clock` (`provider.go:290`), checks the expiry before it
fetches keys (`TokenUnexpired`). A response may be completed again and again, which a reload brings about.

**TokenPurpose.** `JWT` is everything one provider may sign, with its kind, type, audience,
authorized party, subject, nonce and access-token hash, and each `Verifies…` operator
one verifier of the library. `Next` brings any JWT to any of them.

**Callback.** A parameter is absent, empty, good, long or bad. `Parses` has the checks of
`ParseCallback` and `Opens` those of `verifyAuthorizationResponseJWT` from its claims on;
`IsDirect` and `IsJWT` are the grammar, written independently of both.

**AuthorizationRequest.** `BeginContext` is `validateAuthorizationOptions`,
`initialAuthorizationURLWithOptions` and the context; `Alter` is the browser, which goes to
a URL of plain parameters of its own (`Altered`) instead of the one it was given, whether
that was plain, signed or a reference to a pushed request. Nothing in the library notices
this on return (`authorization_url.go:142`, `149`): a provider that requires pushed requests
refuses such a URL (`ProviderSignsIn`), any other takes it. `Refresh` is there because it uses the same
options (`api.go:294`).

**Logout.** `VerifyBackChannelLogout` and `FrontChannelLogout` are the library; the sessions,
the replay store with its `Retention` and the moment between verification and lookup
are the application. A refused token is remembered in `tooLate` only for its time.

**Registration.** `Send` is one request, `Return` the end of a call, `Break` its failure. The
provider may replace the token with any answer. The caller adopts what an answer says,
and keeps its record when a call fails.

**Provider.** `config` and `document` are chosen from sets that each run gives. `Admits` has
the checks of `discoverOIDCProviderWithConfig` in one conjunction: their order decides
only which error is reported. `client.origins` is what the transport is given, `Target`
the endpoint an operation uses, `Redirected` an answer that redirects. `DiscoverIssuer`
may precede `New`. Scheme and host are one value, an origin.

## What is checked

Run `tlc -config <cfg> <module>` in this directory.

| Run | Configuration | States | Shows |
|---|---|---|---|
| `browser` | `MCBrowser` | 435 000 | `RecoveredIsWhole`, `UntouchedRowRecovers`, `VerifierStaysBack` of the table and of the URLs; `AskedIsHonoured` of the request; `ResponseIsUnambiguous` for all callbacks and claims |
| `login_faithful` | `MCLoginFaithful` | 12 200 | `CodeCustody`: with the response issuer required, or in a JWT mode, no code reaches another issuer; `EveryCallReturns` under fairness |
| `login_scrambled` | `MCLoginScrambled` | 150 000 | `SessionBinding`, `VerifierCustody`, `SignedPairing` under a scrambled front channel, `PolicyOfBegin` across a change of configuration, and that `LoginFlow` implements `LoginPromise` (`KeepsPromise`) |
| `endpoint` | `MCEndpointClient` | 27 000 | that `EndpointClient` implements `Exchange` (`KeepsExchange`), `AnswerIsTrue`, `ChallengeIsAnswered`, and `EveryOperationEnds` under fairness |
| `documents` | `MCDocuments` | 494 000 | `PairedEmailIsVouched`, `UserInfoHasTheLastWord` for all pairs of documents and all policies; `OneRelyingParty`, `NoCrossUse` for all JWTs at all verifiers |
| `custody` | `MCTokenCustody` | 2 250 000 | `StoredIsNewest`, `NothingLiveIsForgotten` of two workers; `ExpiryIsHonest` with a clock and lifetimes that wrap around |
| `freshness` | `MCFreshness` | 957 000 | `OneReadingIsEnough`, `ResponseIsShortLived`, with two clocks that differ |
| `logout` | `MCLogout` | 1 630 000 | `EndedByItsProvider`, `LoggedOutOnce`, `WindowIsSharp` |
| `configuration` | `MCConfiguration` | 750 000 | `DestinationsAreVouched`, `AdmittedWorks`, `CredentialFits`; `CallerIsRight` of a registration |
| `login_capability` | `MCLoginFlow`, `MCLoginCapability` | — | violated, [below](#where-code-and-documents-disagree) |
| `claims_verified` | `IdentityClaims`, `MCIdentityVerified` | — | violated |
| `request_refresh` | `AuthorizationRequest`, `MCRequestRefresh` | — | violated |

Some properties are conjunctions whose parts have names and comments of their own:
`AskedIsHonoured` (`RequiredArrivesIntact`, `PolicySurvivesTheBrowser`),
`ResponseIsUnambiguous` (`ParsedIsGrammar`, `DecodersAgree`, `DecodedIsConsumed`),
`OneReadingIsEnough` (`AdmittedIsFresh`, `AdmittedIsUnexpired`, `PromptIsAdmitted`,
`RequestsAreCurrent`),
`WindowIsSharp` (`LateLogoutIsBounded`, `PromptIsHonoured`),
`DestinationsAreVouched` (`IssuerIsVouched`, `OnlyAdmitted`, `AliasesAreEnforced`) and
`CallerIsRight` (`CallerKnows`, `DeletedIsGone`). There is a mutant for each part.

**Bounds, and why they are enough.** Two attempts, two codes, two issuers and two
clients are the smallest world in which anything can be confused with anything
else; every property of `LoginFlow` speaks about one identity or one request and
one attempt, and the confusions it excludes need one more of each. The vault has
three reads of entropy, one of which repeats a value, and two changes by the
table: one to bring a foreign column in and one to bring its companion. In
`EndpointClient` three nonces allow a rotation between the challenge and the
retry and one more after it. `IdentityClaims` has two emails, so that two documents
can disagree, and one name and one picture, which nothing compares. `Symmetry` of
`MCDocuments` permutes relying parties, subjects and access tokens, which no definition
or constant tells apart; no other run uses it.

In each `LoginFlow` run the clients, issuers and options are those in which the
properties of that run could fail; the definitions in `MCLoginFlow` say which: two
clients of different policies at one issuer, and another issuer that may answer in its
place, where the front channel is faithful and liveness is checked; and three clients
(two configurations at one issuer, which has come to require pushed requests in between,
and one at the other) where responses are scrambled.
For `AttemptVault`, `AuthorizationRequest`, `LoginFlow`, `EndpointClient`, `TokenCustody`,
`Freshness`, `TokenPurpose` and `IdentityClaims` the proofs lift the bounds that the runs put
on the constants.

`MCTokenCustody` has two slices, and every behaviour is one of either: for custody
with two workers, three refresh tokens (the first, one that a worker rotates to, and one that the other does) and a clock that stands
still, since custody does not depend on time; for expiry with one worker and five
seconds, where the row depends on one call only, and a `Limit` of eight, so that a
lifetime of nine wraps around. The durations of `Freshness` and `Logout` are small but keep
the order of the real ones (a stop is shorter than the tolerance, the tolerance than the
window; the replay store outlasts window, tolerance and stall together), and the horizon
leaves room for a whole window after the slowest completion. `Freshness` has an ID token that
expires at once and one that does not; the bounds of `AdmittedIsFresh`,
`AdmittedIsUnexpired` and `ExpiryIsHonest` are reached in these runs, so that none of the
stops they count can be left out. `TokenPurpose`, `Callback` and
`Provider` enumerate all inputs of their kind; one JWT at a time is enough for
`OneRelyingParty`, which is about one JWT at two clients. `Registration` has room for one
registration that was lost and one after it, and for three tokens. In `AuthorizationRequest`
every combination of the client's and the provider's policy is an initial state, and the
browser has two requests of its own, one that asks for nothing and one that asks for other
scopes, prompt and ACR than most; the proof has any. In
`Provider`, a configuration is asked one of three questions (where requests go, what they
are authenticated with, whose client it is) and meets the documents that this question
needs (`Documents`); `home`
and `cdn` are two HTTPS origins, `lo` a loopback and `plain` an HTTP origin.

**Deadlock** is not checked: all these systems come to rest when every attempt
and every call has ended, or the bounds on tokens, time or requests are reached.

**Fairness.** `FairSpec` of `LoginFlow` assumes that a call waiting at the network
goes on, and `FairSpec` of `EndpointClient` that its timeout fires. Both stand for
`http.Client.Timeout`, ten seconds, which covers connection, redirects and body
(`provider.go:20`, `338`); it needs nothing of the provider, and nothing else is
assumed: no fairness of issuers, users, browsers or of `Start` and `Complete`.

The type invariants are there because the proofs need them; `TypeOK` of
`LoginFlow` also says that no frame holds a response of a mode
`validateResponseMode` cannot have seen, and that of `EndpointClient` that there
is no third request.

## What is proved

Every theorem holds for all values of the constants that satisfy the named
assumptions of the modules: any number of attempts, issuers, clients, calls,
operations, sessions and nonces. Every safety invariant that a passing run checks is
the property of one of them, and so are the refinements of `LoginPromise` and `Exchange`.

The runs `browser`, `documents` and `configuration` each check several modules that
share no state. `BrowserIsEach`, `DocumentsAreBoth` and `ConfigurationIsBoth` say that a
behaviour of such a composition is a behaviour of every module in it, seen by itself; the
theorems are about these, and what they state of `Request`, `Returned`, `Verifiers`
and `Registry` is stated of the instances under these names.

**`BrowserProofs`: `AttemptVault`.** The property `RecoveredIsWhole` is not inductive: it says
nothing of what the table holds. `VaultInv` adds `ColumnsAreSealed`: every intact
column, wherever it is, was sealed by some `Begin`, under the name it then had; and
`ShownIsOfBegun`: what was shown is what the URL of some `Begin` shows.
The step that matters is `Recover`: the presented state fixes the attempt, because
states of attempts differ, and the label fixes the column (`OpenedColumn`), so the
three columns are those of one attempt. `VaultWhole` and `VaultOpens` follow.
`VaultVerifier` is about every URL that was ever shown: that of another attempt shows none
of the values of this one, and that of this one no verifier, because `Begin` refuses
repeated values and shows a challenge only (`NoVerifierShown`). Assumed: different attempts
have no value in common, and a hash of a value is none of the values.

**`BrowserProofs`: `AuthorizationRequest`.** `RequestInv` says what the browser has: any URL
it likes, which is the request that was meant if it is a reference, and that the provider has
this request if it requires one (`InTheBrowser`). The step that matters is `ProviderSignsIn`
after `Alter`: a provider that requires pushed requests takes a reference only, so that what
it acts on is what was meant. With any other provider nothing is known of what it took; but
the sealed context is what `Begin` made of the options (`BegunAsAsked`), so that what
`Complete` admits satisfies their `max_age` and ACR all the same: `RequestHonoured`. Nothing
is claimed of scope, prompt and claims there, of which the context keeps nothing. Assumed:
`None` is no record, and the browser's requests are requests.

**`BrowserProofs`: `Callback`.** `ParsesGrammar` and `OpensGrammar` show of every combination
of values that the order of the checks in either decoder lets through the grammar and
nothing else; `ResponseOfGrammar`, that what is taken over is of the grammar again.
`ReturnedInv` adds what each phase has: a JWT alone, or a success or an error. It is
needed for `complete()`, which looks at the response and not at the parameters:
`ReturnedUnambiguous`.

**`LoginFlowProofs`.** `FlowInv` says of every frame that its material is that of the
attempt whose row it opened, its context is the one that attempt sealed, its client
has that attempt's issuer and client identifier, and, in JWT modes, that its code
was signed together with its state; and the same of every request in `sent` and
every identity in `admitted`, which no longer have their frame. `GoodStays` shows
that it survives the growth of everything else, `AuthorizeStep` and `AdmitStep`
that the two places where something leaves the library establish it. From it:
`FlowTypes`, `FlowBindsSessions`, `FlowKeepsVerifiers`, `FlowSignedPairing`,
`FlowPolicy`, and `FlowCodeCustody`, which also assumes that the front channel is
faithful. It cannot do without: a front channel that writes the `iss` parameter
can make it say anything. Assumed: no two attempts share a secret; `Config` and
`Offer` have their types. Nothing is assumed of the issuers.

`FlowKeepsPromise`, the refinement of `LoginPromise`: the mapping takes `Begin` to `Ask`, a
successful `SignIn` to `SignIn`, the return of an identity to `LogIn`, and every
other step to a stutter.

**`EndpointClientProofs`.** `EndpointInv`: at most one message of an operation is under
way and it belongs to the latest request (`OneMessage`); what the provider has
executed can be read off the messages and the client (`Account`); a second request
carries a nonce of the provider, and a challenge answers only nonces that are no
longer current (`NonceInv`). `EndpointExecutesOnce`, `EndpointAnswers` and
`EndpointChallenges` follow.

`EndpointKeepsExchange`, the refinement of `Exchange`: an operation is open (`Open`) until its
last request has come to the provider, which is before a challenge that the client is going
to answer and after one that it is not. The mapping takes `Start` to `Ask`, `Execute`,
`Refuse` and the challenge of a last request to `Decide`, the end of an operation to
`Succeed`, `BeRefused` or `Fail`, and the retry, rotation and the first challenge to a
stutter. What matters is that the message which comes to the provider was the only one of
its operation (`AnswerSettles`): otherwise it would be decided twice. `ElsewhereTheSame`
says that nothing done for one operation changes what the mapping says of another one.

**`TokenCustodyProofs`.** `NothingLiveIsForgotten` and `StoredIsNewest` say nothing of what
a call carries. `CustodyInv` adds, for every call (`CallOK`): it presents a refresh token
that was issued, an answer's refresh token is newer than the one presented, a result keeps
one of the two, and one whose revocation has succeeded is no longer honoured; that a
login is alone (`Solo`), so that its row is not there yet; that no two calls were answered
with the same refresh token (`Apart`); and what has become of the row that a refresh was made
with (`Placed`): it still has the token, or a sign-out has ended it, or another refresh has
been answered since. A step of one call leaves the
other calls as they should be even while tokens are issued (`CallStays`). The step that
matters is `Store`: where the answer has a new refresh token and the row is another one, either
that new token is no longer the honoured one, or the row was emptied by a sign-out of the
very token that was presented, which is the third case of `NothingLiveIsForgotten`; where the
answer has none, the retained token is what the row had.
Also proved: `CustodyTypes`, with its clause that a login that succeeds has an ID token.
`CustodyExpiry` has an invariant of its own, `ExpiryInv`: one bound per phase for how far the
deadline of a call lies ahead of the clock and of the answer (`InTime`); `Delay` is the request
and the stops after it, four in all for a login and two for a refresh. That a lifetime below
`Limit` comes through the conversion to a duration as it is, is `DurationIs`; that any other
lifetime only becomes shorter, `DurationIsLess`. Assumed: `None` is neither a token set nor an
answer nor a time, and `CustodyAssumption`.

**`FreshnessProofs`.** `FreshInv` says, phase by phase, how far the reading `call.now` may lie
behind the clock (one stop for each the call has made, `AgeBound`), how long ago the ID token
may have expired by the machine's clock (`ExpiryBound`), and what was checked of the response and of the sign-in
when the call passed them. Every bound of `OneReadingIsEnough` and `ResponseIsShortLived`
is then arithmetic. Assumed: `FreshnessAssumption`, of which `Drift <= Tolerance` and
`2 * Timeout < AssertionLifetime` are what the code's constants satisfy.

**`LogoutProofs`.** `LogoutInv` keeps for every token that was verified and is not acted on
yet when that was, and that it was in the window then (`VerifiedOK`). The step that matters
is `Forget` followed by `LookUp`: the store forgets a token once it is `Retention` old, and by
then no verified copy of it can be left, because window, tolerance and stall together are
shorter (`ReplayOK`). That is `LogoutIsOnce`, and where `LogoutAssumption` is needed. By
which token or notification a session ended is recorded in `EndOK`, from which
`LogoutIsTheProviders` and the late half of `LogoutWindow` follow; the prompt half is
`RefusalOK`. Assumed also: `None` is no instant, and a token is no notification.

**`ConfigurationProofs`: `Provider`.** `ProviderInv` says that the client is what
`OriginsOf` and `AuthenticationOf` make of metadata that were admitted (`ClientOK`), and
that a request is what its phase asks (`RequestOK`). The properties then compare what a
request uses with what admission has looked at: `TargetIsChecked` says that the URL of an
operation, alias or not, is one that was checked, and `SignerIs` and `HMACFits` that an
algorithm was found that fits the secret. From it: `ProviderDestinations`,
`ProviderAdmittedWorks`, `ProviderCredential`. Assumed: `ProviderAssumption`.

**`ConfigurationProofs`: `Registration`.** `RegistrationInv` says what a call and an answer
under way know (`CallerInv`, `AnswerInv`): without a failure, the token and the metadata of
what lives are those of the record or, once there is an answer, those of the answer. A
deleted client stays gone because its slot keeps its last token, so that no late request
recreates it (`Gone`). `RegistrationCaller` follows. Assumed: `RegistrationAssumption`.

**`DocumentsProofs`: `TokenPurpose`.** `PurposeInv`: whatever was accepted was issued and passes the
verifier of its purpose, whichever that is. `PurposeOneParty` and `PurposeNoCrossUse` compare
the verifiers' conditions with what each issuer puts into a JWT. `PurposeTypes` is inductive
by itself; it needs the nonce, which makes the JWT of a login an ID token, which has a
subject. Nothing is assumed of whom a client trusts, only that `None` is neither a client
nor a subject.

**`DocumentsProofs`: `IdentityClaims`.** `ClaimsInv` gives the claims at each stage: those of the ID token
while UserInfo is asked for, and their merge with it afterwards. `ClaimsVouched` and
`ClaimsLastWord` follow with `MergedIs`.

**Only model-checked:** the liveness properties (`EveryCallReturns`,
`EveryOperationEnds`), which are beyond the prover; and the violated claims, which are
not theorems.

## Where code and documents disagree

`docs/prd.md:22-23`: "Unsupported provider capabilities fail during configuration,
not halfway through an interactive login." A login that asks for UserInfo, through
its options or through `IdentityPolicy`, at a provider whose metadata has no
`userinfo_endpoint` is begun, signed in and exchanged; the missing endpoint is
noticed by `fetchUserInfo` (`exchange.go:181`), after the code has been redeemed.
`login_capability` shows it in four steps. The response modes and the ACR values,
in contrast, are checked before the URL is built (`authorization_url.go:104-116`).

`docs/implementation-spec.md:24-25`: "Name, verified email, safe picture, and UserInfo
are consumer-configurable". UserInfo overrides the ID token claim by claim
(`exchange.go:96-100`), so `email` and `email_verified` may come from different
documents: an ID token that vouches for one email and a UserInfo that names another
without `email_verified` yield an identity with the second email, which nobody called
verified, and which satisfies `RequireVerifiedEmail` (`identity_claims.go:71-92`).
`claims_verified` shows it. `PairedEmailIsVouched` is what the code does guarantee:
a provider whose UserInfo has both claims or neither cannot bring this about.

`endpoint_client.go:81` leaves the scope of a refresh out if there is none: "if
len(scopes) != 0". There always is one: `Refresh` takes its scopes through the options of a
login (`api.go:294`), whose default is `openid profile email` (`config.go:205-207`), so a
refresh without scopes asks for some that the login may never have asked for.
`request_refresh` shows it.

These three have a run and are under `findings` in `PROJECT.json`. The others are stated
as definitions in their modules, and no run checks them; whoever wants to see one fail
adds it to the configuration of its module:

| Definition | Document | Code |
|---|---|---|
| `TokenCustody!ReplacementIsComplete` | `api.go:286`: `Refresh` "returns a complete replacement token set" | only the refresh token is carried over (`api.go:303-305`); an answer without `id_token` or `scope` loses them |
| `TokenPurpose!RefreshedIsIDToken` | `docs/implementation-spec.md:19-22`: ID-token validation checks "explicit JWT purpose" | `verifyIDToken` looks at no `typ`; a refresh, which has no nonce, takes an access token or UserInfo JWT (`api.go:306-314`) |
| `TokenPurpose!AccessTokenIsBound` | `docs/architecture.md:25-26`: refresh uses the same "ID-token validation rules" | `at_hash` is compared at login only (`exchange.go:85-87`) |
| `AuthorizationRequest!OfflineNeedsConsent` | `authorization_url.go:118`: "OIDC offline access requires prompt=consent" | only the flag is looked at, not the scope (`authorization_url.go:117`) |
| `AuthorizationRequest!ClaimsAreBound` | `docs/architecture.md:15-17`: the context binds the "requested claims" | it does not hold them (`api.go:146-154`) |
| `Registration!AcceptedIsManageable` | `registration.go:119`: "deletes a dynamically registered client" | a loopback management URI is accepted at registration and refused at use (`registration.go:98`, `129`) |
| `Provider!DiscoveryEnablesNothing` | `docs/architecture.md:40-42`: "discovery claims cannot enable behavior by themselves" | `require_pushed_authorization_requests` makes `Begin` push (`authorization_url.go:144`) |

## What is not modelled

- **An expiry of attempts**, which is the caller's; and the time that the caller's own
  signers and decrypters take, which is not bounded by the transport.
- **What a provider does with a URL the browser made up**, beyond taking its parameters; and
  that a client or a provider may insist on signed requests, which the library has no
  option for.
- **Grammar**: lengths, encodings, character sets, URL and JSON shape. Whatever fails
  these checks is an error like those that are modelled.
- **UserInfo as plain JSON**, its content types and its encryption: success or failure.
- **Cryptography**, including entropy, beyond the symbolic rules above; JOSE adapters
  and signer interfaces of the caller.
- **`EndSessionURL` and `CheckSessionIframe`**: one composes a URL from its arguments,
  the other returns a string of the metadata.
- **The normalisation of WebFinger resources** and hints, locales and bounds of the
  authorization options: string functions without state.
- **Transparent resends by the transport** (`endpoint_client.go:183`): the body that
  `GetBody` yields there is not the one that was sent, but whether it is ever asked for
  is up to the HTTP library.
- **Build and release tooling.**

## Plan

What is left is proof, in order of what matters most:

1. That a step of `TokenCustody` which asks for tokens is a step of `Exchange`: so far only
   the other half is proved, that `EndpointClient` implements it.
2. Lemmas about the operators that several modules use (`Pushes`, `AuthorizedParty`, the
   windows), stated once.
3. Action properties: a result that was returned, a profile that was admitted and a
   session that has ended stay as they are.
