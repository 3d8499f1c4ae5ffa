# A TLA+ model of kms-sdk-go

TLA+ modules, TLC configurations and TLAPS proofs for the Go client of the
Keys&More KMS (`package kmssdk`). Every definition is translated from the Go
source; `PROJECT.json` names the lines each one stands for. The server, the
identity provider, `net/http` and `sync.Mutex` are outside the repository: they
are modelled from how the SDK uses them and marked external in the map.

## 1. The system

The SDK is a stateless wrapper around an HTTP API, except for three things: a
connected `Client` shares a token cache between goroutines, some methods make
several requests that only together mean something, and a client has a life
before and around its connection. What is left is decoding, on which callers
and the SDK itself branch.

| Part | State | Operations | Interacts with | Hard because |
|---|---|---|---|---|
| Request execution, `client.go` | none of its own; an attempt counter and a bearer per call | `do`, `newRequest`, `Logout` | the token source (calls), the KMS API | a 401 is replayed once, concurrently with other calls |
| Token sources, `selfmanaged.go`, `oauth2.go`, `oidc.go` | mutex, access and refresh token, their expiries | `GetToken`, `InvalidateToken`, `Logout`, `requestToken` | every `do`; a token endpoint, under the mutex | concurrency, expiry, revocation, lost replies, fall-back from refresh to login |
| API errors, `errors.go` | none | `newAPIError` | `do`, the token sources and `Logout` decide on its status | three body shapes decoded into one record, defaults, 260 |
| Token properties, `oidc.go` | the property that discovery names | `tokenPropertyCandidates`, `camelToSnake` | the reply of the identity provider | two spellings, several tokens in one reply |
| Single-request methods: keys, crypto, signatures, certificates, aliases, async records | none | one `do` each | `do` | bodies must survive the replay; imports answer 260 |
| Correlation ids, `correlation.go` | the id in the context | `WithCorrelationID` | `newRequest`, `newAPIError` | which requests carry it |
| Construction and `Connect`, `client.go`, `options.go`, `tls.go`, `config.go` | `tlsErr`, the transport, `tokenSource` | `NewClient`, `Connect`, `newOAuth2FromConfig`, `tlsOptions.build` | discovery, the caller's `tls.Config` | partial failures, reconnects, shared configuration |
| Paged lists, `client.go`, `vslot.go` | page number and accumulated content | `fetchAllPages` | a list that other clients change | the list is numbered anew for every page |
| Rotation and aliases, `key_lifecycle.go`, `alias.go` | the links read first | `RotateKey`, `newKeyLink`, `SetKeyState`, `CreateKeyAlias`, `MoveKeyAlias` | a chain of keys that other clients rotate, advance and delete | requests that are not atomic together |
| Data models, documentation, examples | none | marshalling | | |

What makes each part correct:

* *Requests and tokens.* The replay carries a token newer than the one that was
  rejected and otherwise the same request; it never repeats an effect; a 401
  reaches the caller only when a renewed token was rejected too; a renewal is
  never overwritten by an older one; nothing survives a `Logout` that should
  not; a disruption costs a bounded number of renewals; every call returns, and
  calls succeed again once tokens are left alone.
* *Errors.* The error alone tells the caller whether the operation happened, as
  far as anyone can know; a nil error comes with the result; the code of an
  `APIError` can be branched on; only a rejected refresh leads to the
  credentials.
* *Token properties.* The bearer is the token that discovery names.
* *Construction and Connect.* TLS material that fails to load cannot be
  bypassed; clients do not share trust or certificates by accident; nothing is
  sent before discovery; the configuration decides where credentials go.
* *Paged lists.* What is returned is what was there; the loop ends.
* *Rotation.* The returned id is that of the caller's own successor, and the
  error says no more about the rotation than what happened.

## 2. Modules

```
TokenSources <--+-- KmsClient   <-- MCKmsClient     KmsClient --refines--> OneShotCall
                +-- Exchanges   <-- MCExchanges     Exchanges --refines--> OneShotCall
                +-- ClientSetup <-- MCClientSetup
Methods, Decoding <-- Exchanges
PagedList <-- MCPagedList           KeyRotation <-- MCKeyRotation

TokenSourcesProofs <-- KmsClientProofs <-- KmsClientGrants
                   <-- ExchangesProofs
CountingLemmas     <-- KmsClientGrants, PagedListProofs
ClientSetupProofs, KeyRotationProofs
```

**TokenSources** holds the decisions of the three token sources as operators on
a cache record: may the access token be used, may the refresh token be tried,
how a reply is stored. They differ, and the differences matter: `oidcAuth` uses
a token without expiry until it is rejected and never forgets a refresh token
for its age; `oauth2` replaces the pair even by a reply without a refresh token;
`selfManagedAuth` keeps it. A token is the serial number of the grant that
issued it, 0 the empty string; an expiry is `zero`, `future` or `past`.

**KmsClient** is the connected client with any number of goroutines.

| Action | Code |
|---|---|
| `BeginCall`, `BeginLogout`, `Cancel` | a goroutine enters `do` or `Logout`; its context ends |
| `UseCachedToken`, `StartRefresh`, `StartLogin` | `GetToken` under the mutex, up to its return or to the request to the token endpoint |
| `Grant` | external: the token endpoint honours the request |
| `GrantReceived`, `GrantWasted`, `GrantRefused` | `requestToken` stores the reply; loses it, cannot decode it or finds no token in it; gets none |
| `RefreshRejected` | a 4xx on the refresh: the refresh token is dropped, `GetToken` goes on to the login |
| `Execute`, `RejectToken`, `Refuse` | external: the server's side of a request and what `httpClient.Do` makes of it |
| `ReplayOn401`, `Return` | `do` on the response |
| `LogoutLocally`, `LogoutNothing`, `PostLogout`, `LogoutAccepted`, `LogoutFailed` | `Client.Logout` on OAuth2, and `selfManagedAuth.Logout` |
| `AccessExpires`, `RefreshExpires`, `RevokeAccess`, `RevokeRefresh` | time, the server |

The mutex is the variable `mu`. A critical section without I/O is one action; a
token request keeps `mu` across two or three, which is exactly what the code
does. `rejected`, `executed` and `loggedOut` are history variables. A response
is one of a few classes: success, 401, any other error (4xx, 5xx, 260), lost,
undecodable.

**Exchanges** takes those classes apart. It follows one goroutine's calls,
response by response, with concrete statuses and bodies, so that every decision
is taken on what was decoded and not on what a response was meant to be. It is
a second view of the same code and not a component of KmsClient: concurrency is
KmsClient's subject, data is this module's, and their product is out of reach.
Both implement OneShotCall, KmsClient with classes as outcomes, Exchanges with
what a caller can see of the error (`Seen`: its type, and the status of an
`APIError` whichever endpoint it came from).

| Action | Code |
|---|---|
| `Begin(m, id)`, `BeginLogout(id)`, `RefuseOperation` | a method of **Methods** or `Logout` is called with a correlation id in its context; `Crypto` refuses an operation it does not know |
| `UseCachedToken`, `StartRefresh`, `StartLogin` | `GetToken`, and the request that `newRequest` or `requestToken` builds |
| `Grant`, `NoGrant` | external: the token endpoint's answer, any error body included |
| `TokenReceived`, `FallBackToLogin`, `TokenFails` | `requestToken` and `GetToken` on that answer |
| `Execute`, `AttributesDiffer`, `Refuse`, `RejectToken`, `NeverArrives` | external: the API's answer |
| `ReplayOn401`, `Finish` | `do` on the response |
| `LogoutLocally`, `PostLogout`, `LogoutEndpoint`, `LogoutReturns` | `Logout` |
| `Expire`, `Revoke` | time, the server |

**Methods** says of each method that makes one request what `newRequest` and
`do` need to know of it: body, media type, result. **Decoding** is what is read
out of a response: `newAPIError` field by field, and the token property
candidates with `camelToSnake` on sequences of runes. A body keeps its form
(`json`, `mistyped`, `text`) and which fields are there. An error body may have
a `status_code` of its own, which `json.Unmarshal` writes over the HTTP status
(errors.go:99); this is a case of the model.

**OneShotCall** is what `do` promises its caller, without tokens or locks: while
a call is open its operation may take effect once; `ok` means it did, some
errors mean it did not, the others leave it open.

**ClientSetup** has several clients of one process, each going through
`NewClient`, any number of `Connect`s and other calls. Certificate pools and the
backing arrays of certificate slices are objects on a heap, so that sharing one
and appending in place are visible; a URL is its origin. After a
`Connect` that fails at the token or at the vslots the client keeps its token
source, as in the code.

**PagedList** is `fetchAllPages` against a list that is created in and deleted
from between requests.

**KeyRotation** is several `RotateKey` calls on one chain of keys, with every
way the server may fill in key links. Between the three requests of each, other
clients advance key states (`SetKeyState`) and delete keys (`DeleteKey`); these
are one request each, and their failures change nothing and are left out. What
the server did with a rotate request (`Rotate`, `RotateFails`) and what `do`
makes of its answer (`Answered`) are independent: a rotation that was executed
may be answered with a 5xx or its response lost, and what `do` takes for a
success may be an unfollowed redirect of a request that was not executed.
`Answers` says which answers there are.

Operators marked *(wrong variant)* are plausible bugs. They are part of no
specification: each shows that a property fails when it takes the place of the
definition below it (`PROJECT.json`, "mutants").

## 3. Runs

| Run | Question | Instance |
|---|---|---|
| `client_safety` | Is the 401 replay fresh, unique and honest, on every backend and under faults of the server and the network? | 2 goroutines, every fault, 3 grants, 3 disruptions, 3 reply shapes; 2.2 million states |
| `client_live` | Does every call return, do calls succeed again when tokens are left alone, and how many renewals does a disruption cost? | 2 goroutines, every backend, every fault, 2 disruptions, fairness; 53,000 states |
| `exchanges` | Is what the caller is told what happened, for every shape of response? | 4 methods, 4 OIDC properties, 3 sets of token properties, 6 error bodies, statuses 200, 204, 260, 302, 400, 401 and 500, 3 grants, 2 disruptions; 2.2 million states |
| `paging` | How complete is a list, and does the loop end? | 0 to 5 items, pages of 2, any creations and deletions; 1.3 million states |
| `rotation` | Is the returned successor the caller's own, and what does the error tell? | 2 callers, 4 keys, every view of key links, every answer but a redirect; 630,000 states |
| `setup` | Do TLS errors, trust, certificates and credentials stay where they belong? | 2 clients, 10 option sets, 8 configurations; 1.2 million states |
| `client_stampede`, `client_logout`, `client_cancel`, `paging_delete`, `rotation_redirect`, `exchange_override` | see section 4 | |

*Bounds.* Two goroutines are enough for a late 401, a competing renewal and a
logout between two steps of a call; the safety theorems hold for any number.
Three grants are the first token, its renewal and the renewal of that one, so
that a replay may meet an older, an equal and a newer token; a token endpoint at
its bound refuses, which is a behaviour it has anyway. Every expiry,
revocation, refusal, lost or undecodable message, cancellation and logout costs
one of `MaxDisruptions`; three of them allow a token to die while another is
being replaced and the reply of that is lost. `client_live` has two and six
grants, a bound that `GrantsPerDisruption` shows is never reached, so that
no call fails for want of grants. In `exchanges` one method stands for each kind
that `newRequest` and `do` tell apart: without body and with result, with both,
with body and without result, and refused by the SDK; a disruption is an expiry,
a revocation or a logout, while responses are free to fail at any time. The
token and logout endpoints answer with 260, 302 or an error there; the API's
errors are 260, 400, 401 and 500, because an unfollowed redirect of the API is
the exception that `OneShot` excludes and `rotation_redirect` shows. One of the
two token error bodies contradicts the HTTP status with a `status_code` of 500;
one that contradicts it with a 4xx is `exchange_override`'s subject. Pages of
two with five items give an empty list, a partial page, full pages and three
pages. Four keys allow three rotations, two of them by others.

*Symmetry* is used on goroutines and rotators in runs without liveness.

*Fairness.* `net/http` ends every exchange, because the SDK's own `http.Client`
has a timeout (`WithTimeout`, 10 s): weak fairness of the token endpoint's, the
API's and the logout endpoint's answer. A goroutine waiting for the mutex
competes with others that take it repeatedly, but Go's mutex hands the lock to
a starved waiter: strong fairness of the steps that take it. `do` goes on once
it has a response: weak fairness. Nothing obliges a goroutine to begin a call,
to cancel one, or time and the server to disturb a token. `CallsRecover` speaks
of calls begun after the last disruption, which the bound makes finite in
number; `EveryCallReturns` of all calls.
`NoTimeoutSpec` weakens this for a custom `http.Client` without a timeout: an
exchange is only certain to end once its own context is done.

*The renewals a disruption costs.* `GrantsPerDisruption` is the strongest bound
found to hold: one grant for the first call and for each disruption, and one
more per other goroutine for each token that died on the server, since
`InvalidateToken` does not say which token was rejected. Section 5 says why.

## 4. Where the code and its documentation disagree

* **A revocation may cost more than one renewal** (`client_stampede`).
  SPEC.md:44 claims that the mutex "prevents refresh stampedes".
  `InvalidateToken` does not say which token was rejected, so a late 401 for the
  old token drops the new one. With a single goroutine, and with any number
  until a token dies on the server, the claim holds and is proved.
* **Logout does not lead back to the credentials on OAuth2 deployments**
  (`client_logout`), against client.go:193 and SPEC.md:369: the refresh token
  stays and is used. On SELF_MANAGED deployments the property holds and is
  proved.
* **A cancelled call may not return** (`client_cancel`), against doc.go:112: it
  waits for the mutex behind another goroutine's hanging token request. Without
  a client timeout this is for ever; with it, for that timeout.
* **A list may lack an item that was never deleted** (`paging_delete`), against
  SPEC.md:371, when another one is deleted between two pages. Each deletion
  costs one item at most (`OneLostPerDeletion`, proved).
* **A 3xx is a success** (`rotation_redirect`), against SPEC.md:372, which
  promises an `APIError` for every status that is not 2xx: `do` looks for 260
  and for statuses from 400 on. `net/http` hands a 3xx over when it has no
  `Location`, is a 304, or when the caller's `http.Client` does not follow
  redirects. A method without a result then returns nil, and `RotateKey` goes on
  to its second read and returns `ErrSuccessorUnknown` of a key that was never
  rotated, against key_lifecycle.go:14. Nothing but a redirect is an exception
  (`NonSuccessFails`).
* **A 5xx may cost the refresh token** (`exchange_override`), against SPEC.md:103,
  which says that a 5xx of the refresh propagates, and errors.go:60. An error
  body is decoded over the `APIError`, so that a `status_code` in it takes the
  place of the HTTP status on which `GetToken` decides: a 500 that says 400 in
  its body drops the refresh token and leads to the password grant, a 400 that
  says 500 is returned. With any other error body the property holds and is
  proved.

One more is visible in the model and has no run: token and logout requests carry
no correlation id (`TokenRequest`), against correlation.go:13, since only
`newRequest` sets the header.

## 5. Proofs

A theorem holds for every value of the constants that its module's assumption
(`ConstantsOK`, `RotationOK`, `PagingOK`, `SetupOK`: subsets of what the module
names, bounds that are naturals) allows, and under the hypotheses the theorem
states itself. No property is inductive as it stands;
in each module an invariant that is has one lemma per part, and in it one step
per action.

| Module | Theorem | Property |
|---|---|---|
| `KmsClientProofs` | `TypeCorrect`, `ReplayFresh`, `UnauthorizedGenuine`, `SelfManagedLogout`, `NewestGrant` | `TypeOK`, `ReplayIsFresh`, `UnauthorizedIsGenuine`, `SelfManagedLoginFollowsLogout`, `NewestGrantKept` |
| | `OneShot` | `CallsAreOneShot`, the refinement of OneShotCall |
| `KmsClientGrants` | `GrantsBounded` | `GrantsPerDisruption`, for finitely many goroutines and replies with a usable token |
| | `OneGrantAlone`, `OneGrantPerExpiry` | `OneGrantPerDisruption`, likewise, with one goroutine; as long as no token has died on the server |
| `ExchangesProofs` | `TypeCorrect`, `Alike`, `ResultWithSuccess`, `CodeReliable`, `BearerNamed` | `TypeOK`, `AttemptsAreAlike`, `ResultComesWithSuccess`, `CodeIsReliable`, `BearerIsTheNamedProperty` |
| | `LoginAfterRejection` | `LoginFollowsRejection`, if no token error body has a `status_code` from 400 to 499 (`NoOverride`) |
| | `OneShot` | `ErrorsAreOneShot`, the refinement of OneShotCall, if no status of the API is a redirect |
| | `NonSuccessFails` | `NonSuccessYieldsAPIError`, if no status of any endpoint is a redirect |
| `KeyRotationProofs` | `TypeCorrect` | `TypeOK` |
| | `SuccessorOwn`, `OutcomeTells` | `SuccessorIsOwn`, `OutcomeTellsRotation`, if no rotate request is answered with an unfollowed redirect (`NoRedirect`) |
| `PagedListProofs` | `TypeCorrect`, `UnchangedExact`, `OneLost`, `RequestsBounded` | `TypeOK`, `UnchangedListIsExact`, `OneLostPerDeletion`, `RequestsAreBounded` |
| `ClientSetupProofs` | `TypeCorrect`, `TLSErrorFinal`, `TrustOwn`, `IdentityOwn`, `NothingUnconnected`, `AvoidKMS` | `TypeOK`, `TLSErrorIsFinal`, `TrustIsOwn`, `IdentityIsOwn`, `NothingSentUnconnected`, `CredentialsAvoidKMS` |

**KmsClient.** `IInv` adds to the properties what they rest on: `LockInv`, that
a goroutine holds the mutex exactly while its token request is out, so there is
at most one grant on its way; `IssuedInv`, that every token anywhere was issued
and the grant on its way is the newest; `FreshInv`, that once a call is being
replayed neither the cache nor a grant on its way holds a token as old as the
rejected one, which `InvalidateToken` establishes and only a newer grant can
end; `RejectedInv`, that a rejected token stays dead; `EffectInv`, what a result
says of the effects; and `LogoutInv`, that a logged-out SELF_MANAGED client has
no refresh token and none on its way. Freshness is where the mutex and the
invalidation meet: without `LockInv` two grants could be stored in the wrong
order, and then a replay could find the rejected token again.

**The account of the renewals.** `GrantsPerDisruption` speaks of the past, and
nothing in the state says why a grant was made. The invariant `Account` of
KmsClientGrants says what is still to come instead. On one side stand the grants
made, the one that is due because nothing usable is cached or on its way
(`Need`), the Logouts under way and the calls whose cancellation has not shown
yet (`Leaving`, `Doomed`: their disruption was counted when they began), and the
tokens that died (`Dead`). On the other stand one, the disruptions, and the
pairs in `Exhausted`, a goroutine and a dead token that it will never carry in a
first attempt again. A grant moves one from `Need` to the grants. A step that
leaves nothing usable cached raises `Need`, and pays with its own disruption, by
leaving `Leaving` or `Doomed`, or, when it is a 401, with a pair: the goroutine
had the dead token in its first attempt, and afterwards neither it nor the cache
has it. A token that dies is paid for by the disruption that killed it. Every
goroutine can be in a pair with every dead token, which gives the bound: the
number of goroutines less one for each dead token. With one goroutine that is
nothing, and without dead tokens too: the other two theorems.

`UsableReplies` assumes that a reply carries an access token and, except from a
generic OIDC provider, a positive `expires_in`. Without it there is no bound: the
SELF_MANAGED and Keycloak sources take such a reply and renew at every call.

**Exchanges.** `IInv` is `TypeOK` with `ResponseInv`, that responses and their
`status_code`s are those of the other side; `SentInv`, that every request to the
API of this call is the one `newRequest` would build now; `RefreshInv`, that the
refresh token stays until its refresh was answered with a 4xx, provided that
`NoOverride` holds; `EffectInv`,
what the response on its way says of the executions (`APIResponse`);
`OutcomeInv`, that an `APIError` returned is `newAPIError` of the last response;
and `BearerInv`, that the cached token of an OIDC deployment is of the property
named as well, that a reply with tokens follows a grant, and that no reply of an
earlier request is taken for the one the token came in. `camelToSnake`
stays unexpanded in that proof: what it computes matters to TLC's run only.
`StatusInv` carries `NonSuccessFails`: every response handled is final, and a
call that makes no request has none.
`ConstantsOK` assumes that a `status_code` in a token endpoint's error body is
0 or that of an error, and that the KMS API's error bodies have none, as
errors.go:88 documents them; with a `status_code` in an error body of the API the
`StatusCode` that a caller sees would be another than the one that `OneShot` and
`CodeReliable` speak of. The hypotheses of `OneShot` and `NonSuccessFails`
exclude just the 3xx of section 4, that of `LoginAfterRejection` just its
`status_code`: with either the property does not hold.

**KeyRotation.** Only the newest key of a chain is active, and states never go
back. So a rotation of `k` that is executed creates `k + 1`, and no key was created
between the first read and the rotation: whatever the second read shows that
was not in the first is newer than `k`. Of these `k + 1` is the only one linked
to `k`, unless the server lists the whole chain; then a single new link is
`k + 1` or `k + 1` has been deleted, the exception `SuccessorIsOwn` states.
`NoRedirect` is what makes the second read follow a rotation: it says nothing of
5xx or lost responses, after which a call that rotated has returned an error.

**PagedList.** `IInv` is `TypeOK`, `BoundInv` (the list holds existing items and
no page beyond the longest list is asked for) and `UnchangedInv` (what was
fetched of an unchanged list is the part before the page asked for). `LossInv` adds
that no item is listed twice and counts `Missed`, the survivors that are in no
page fetched and on none to come: a deletion before the page asked for adds to
them the first item of that page, and nothing else does.

**ClientSetup.** `Inv` is `TypeOK`, `TLSInv` (only `NewClient` sets `tlsErr`, and
it stops the client before its first request), `TrustInv` (a client's pool is
written by its own `NewClient` alone), `CertInv` (so is a client's array of
certificates, which it has of its own exactly when it adds a certificate) and
`SourceInv` (a token source is the one its configuration calls for).

**CountingLemmas** is what both counting proofs need of `Cardinality`.

*Only model-checked:* liveness (`EveryCallReturns`, `CallsRecover`), which the
prover cannot treat, and what `camelToSnake` computes, a fold over a sequence
that would need an induction over its length. Every safety property of a passing
run is stated by a theorem.

## 6. Not modelled

* The SELF_MANAGED and Keycloak sources accept a reply without an access token;
  the models have the case, and an empty bearer is just one the server rejects.
* The arithmetic of `expires_in`: an expiry is only reached or not.
* A response whose body breaks off while it is read, and which fields of a
  mistyped error body were decoded before the error: the form of the body stands
  for both.
* The order in which options are applied, and the server name and other fields
  inside `tls.Config`.
* What the server does with an alias, in particular with a `MoveKeyAlias` whose
  first key is no longer the alias's: the SDK sends both ids and nothing in the
  repository shows what follows. The two methods are requests in Methods.
* Query filters of lists, the `enabled` flag of keys, and the fields of the data
  models: they are passed through.
* Logging, the documentation, the examples and the build.

## 7. Plan

Done, in this order: TokenSources and KmsClient with OneShotCall, its runs and
its theorems; PagedList; KeyRotation; ClientSetup; Methods, Decoding and
Exchanges; key states in KeyRotation; the theorems about
KeyRotation, PagedList, ClientSetup and Exchanges.

Then the account of the renewals, the bearer of OIDC deployments, the statuses
that are not 2xx, and the cost of a deletion. Then the client certificates in
ClientSetup, the answers to a rotate request that do not tell what happened to
it, and the redirects of the authentication endpoints.

Left: an abstract specification of `RotateKey` that loses the response of a
rotation in a step of its own; a bound on the items that a growing list repeats;
options applied in any order.
