------------------------------ MODULE KmsClient ------------------------------
(***************************************************************************)
(* A connected Client used by several goroutines at once (client.go), with *)
(* the TokenSource that Connect chose and the mutex that guards its cache  *)
(* (selfmanaged.go, oauth2.go, oidc.go), against a server and an identity  *)
(* provider that revoke tokens, refuse requests and lose messages.         *)
(*                                                                         *)
(* Each goroutine runs authenticated requests (Client.do) and logouts      *)
(* (Client.Logout), one at a time.  Steps between which no other goroutine *)
(* can observe anything are one action: a critical section that does no    *)
(* I/O is one step, one that posts to a token endpoint keeps the mutex     *)
(* across two.                                                             *)
(***************************************************************************)
EXTENDS TokenSources, FiniteSets

CONSTANTS
  Callers,         \* the goroutines sharing the client
  Nobody,          \* the value of mu when it is unlocked
  Backends,        \* the backends Connect may have chosen
  Operations,      \* what callers do: "call" (Client.do), "logout"
  Faults,          \* what the environment may do, see below
  Shapes,          \* the shapes of the token endpoint's replies
  MaxGrants,       \* bound: grants the token endpoint issues
  MaxDisruptions   \* bound: faults and logouts

AllOperations == {"call", "logout"}

(***************************************************************************)
(*   "expire"     a cached token reaches its local expiry time             *)
(*   "revoke"     the server stops accepting a token it issued             *)
(*   "refuse"     a response with status >= 400 that is not a 401, or 260  *)
(*   "transport"  a request or its response is lost, or the client's       *)
(*                timeout fires                                            *)
(*   "garble"     a success status with a body that does not decode        *)
(*   "cancel"     the caller's context is cancelled                        *)
(***************************************************************************)
AllFaults == {"expire", "revoke", "refuse", "transport", "garble", "cancel"}

\* Which fields of a token response are present (non-empty, positive).
Shape == [access : BOOLEAN, expires : BOOLEAN,
          refresh : BOOLEAN, refreshExpires : BOOLEAN]

ASSUME ConstantsOK ==
  /\ Nobody \notin Callers
  /\ Backends \subseteq AllBackends
  /\ Operations \subseteq AllOperations
  /\ Faults \subseteq AllFaults
  /\ Shapes \subseteq Shape
  /\ MaxGrants \in Nat
  /\ MaxDisruptions \in Nat

VARIABLES
  backend,      \* c.tokenSource
  mu,           \* the holder of the token source's mutex
  cache,        \* the token source's cached tokens
  pc,           \* where each goroutine is
  attempt,      \* do(): the loop counter of the request under way
  token,        \* do(): the bearer token of the current attempt
  result,       \* the response being handled, then what the call returned
  reply,        \* requestToken(): the token endpoint's reply on its way
  cancelled,    \* the call's context is done
  rejected,     \* history: the bearer token of the attempt answered by 401
  executed,     \* history: how often the server executed the operation
  loggedOut,    \* history: a Logout returned nil and no login was granted since
  issued,       \* the server: grants issued so far
  liveAccess,   \* the server: the access tokens it accepts
  liveRefresh,  \* the server: the refresh tokens it accepts
  disruptions   \* bound: the faults and logouts so far

callVars   == <<pc, attempt, token, result, reply, cancelled, rejected, executed>>
sourceVars == <<backend, mu, cache, loggedOut>>
serverVars == <<issued, liveAccess, liveRefresh>>
vars == <<callVars, sourceVars, serverVars, disruptions>>

\* The control points.  A goroutine holds mu at the Holding ones, where a
\* request to the token endpoint is outstanding or its reply on the way.
Holding == {"refresh", "login", "granted", "logoutPost"}
Points  == {"idle", "getToken", "send", "answered", "logout"} \cup Holding

Results == {"none", "ok", "unauthorized", "apiError", "transportError",
            "decodeError", "tokenError", "loggedOut", "logoutError"}

Init ==
  /\ backend \in Backends
  /\ mu = Nobody
  /\ cache = EmptyCache
  /\ pc = [g \in Callers |-> "idle"]
  /\ attempt = [g \in Callers |-> 0]
  /\ token = [g \in Callers |-> NoToken]
  /\ result = [g \in Callers |-> "none"]
  /\ reply = [g \in Callers |-> NoReply]
  /\ cancelled = [g \in Callers |-> FALSE]
  /\ rejected = [g \in Callers |-> NoToken]
  /\ executed = [g \in Callers |-> 0]
  /\ loggedOut = FALSE
  /\ issued = 0
  /\ liveAccess = {}
  /\ liveRefresh = {}
  /\ disruptions = 0

-----------------------------------------------------------------------------
(* A call begins, and its context may be cancelled while it runs.          *)

Start(g, at) ==
  /\ pc[g] = "idle"
  /\ pc' = [pc EXCEPT ![g] = at]
  /\ attempt' = [attempt EXCEPT ![g] = 0]
  /\ token' = [token EXCEPT ![g] = NoToken]
  /\ result' = [result EXCEPT ![g] = "none"]
  /\ cancelled' = [cancelled EXCEPT ![g] = FALSE]
  /\ rejected' = [rejected EXCEPT ![g] = NoToken]
  /\ executed' = [executed EXCEPT ![g] = 0]
  /\ UNCHANGED <<reply, sourceVars, serverVars>>

\* do() enters newRequest, which asks the token source for a token.
BeginCall(g) ==
  /\ "call" \in Operations
  /\ Start(g, "getToken")
  /\ UNCHANGED disruptions

BeginLogout(g) ==
  /\ "logout" \in Operations
  /\ disruptions < MaxDisruptions
  /\ Start(g, "logout")
  /\ disruptions' = disruptions + 1

\* One more thing goes wrong.
Fault(kind) ==
  /\ kind \in Faults
  /\ disruptions < MaxDisruptions
  /\ disruptions' = disruptions + 1

Cancel(g) ==
  /\ Fault("cancel")
  /\ pc[g] # "idle"
  /\ ~cancelled[g]
  /\ cancelled' = [cancelled EXCEPT ![g] = TRUE]
  /\ UNCHANGED <<pc, attempt, token, result, reply, rejected, executed,
                 sourceVars, serverVars>>

\* The HTTP exchange under way ends in an error instead of a response.
ExchangeFails(g) == Fault("transport") \/ (cancelled[g] /\ UNCHANGED disruptions)

-----------------------------------------------------------------------------
(* GetToken, with the mutex taken in the first step and released in the    *)
(* step that returns.                                                      *)

\* GetToken returned a token: newRequest completes and the request leaves.
SendWith(g, t) ==
  /\ token' = [token EXCEPT ![g] = t]
  /\ pc' = [pc EXCEPT ![g] = "send"]

UseCachedToken(g) ==
  /\ pc[g] = "getToken"
  /\ mu = Nobody
  /\ AccessUsable(backend, cache)
  /\ SendWith(g, cache.access)
  /\ UNCHANGED <<attempt, result, cancelled, reply, rejected, executed,
                 sourceVars, serverVars, disruptions>>

\* A request to the token endpoint leaves, and the mutex stays with g.
PostLocked(g, at) ==
  /\ mu' = g
  /\ pc' = [pc EXCEPT ![g] = at]
  /\ UNCHANGED <<attempt, token, result, cancelled, reply, rejected, executed,
                 backend, cache, loggedOut, serverVars, disruptions>>

MustRefresh == ~AccessUsable(backend, cache) /\ RefreshUsable(backend, cache)
MustLogin   == ~AccessUsable(backend, cache) /\ ~RefreshUsable(backend, cache)

\* (wrong variants) The mutex is not held while the request is outstanding.
StartRefreshUnlocked(g) ==
  pc[g] = "getToken" /\ MustRefresh /\ PostLocked(g, "refresh")

StartLoginUnlocked(g) ==
  pc[g] = "getToken" /\ MustLogin /\ PostLocked(g, "login")

StartRefresh(g) ==
  pc[g] = "getToken" /\ mu = Nobody /\ MustRefresh /\ PostLocked(g, "refresh")

StartLogin(g) ==
  pc[g] = "getToken" /\ mu = Nobody /\ MustLogin /\ PostLocked(g, "login")

\* The decoded reply of a given shape to the next grant.
NextReply(s) ==
  [access  |-> IF s.access THEN issued + 1 ELSE NoToken,
   refresh |-> IF s.refresh THEN issued + 1 ELSE NoToken,
   expires |-> s.expires, refreshExpires |-> s.refreshExpires]

\* The token endpoint honours the request of g and answers with shape s.
Grant(g, s) ==
  /\ pc[g] \in {"refresh", "login"}
  /\ pc[g] = "refresh" => cache.refresh \in liveRefresh
  /\ issued < MaxGrants
  /\ issued' = issued + 1
  /\ liveAccess' = IF s.access THEN liveAccess \cup {issued + 1} ELSE liveAccess
  /\ liveRefresh' = IF s.refresh THEN liveRefresh \cup {issued + 1} ELSE liveRefresh
  /\ reply' = [reply EXCEPT ![g] = NextReply(s)]
  /\ loggedOut' = (loggedOut /\ pc[g] = "refresh")
  /\ pc' = [pc EXCEPT ![g] = "granted"]
  /\ UNCHANGED <<attempt, token, result, cancelled, rejected, executed,
                 backend, mu, cache, disruptions>>

GrantReceived(g) ==
  /\ pc[g] = "granted"
  /\ Accepts(backend, reply[g])
  /\ cache' = Store(backend, cache, reply[g])
  /\ SendWith(g, reply[g].access)
  /\ reply' = [reply EXCEPT ![g] = NoReply]
  /\ mu' = Nobody
  /\ UNCHANGED <<attempt, result, cancelled, rejected, executed,
                 backend, loggedOut, serverVars, disruptions>>

\* requestToken failed with an error that GetToken, and so do(), returns.
TokenRequestFailed(g) ==
  /\ mu' = Nobody
  /\ pc' = [pc EXCEPT ![g] = "idle"]
  /\ result' = [result EXCEPT ![g] = "tokenError"]
  /\ reply' = [reply EXCEPT ![g] = NoReply]
  /\ UNCHANGED <<attempt, token, cancelled, rejected, executed,
                 backend, cache, loggedOut, serverVars>>

\* The grant was issued, but the reply is lost, does not decode, or has no
\* usable token property.
GrantWasted(g) ==
  /\ pc[g] = "granted"
  /\ \/ ~Accepts(backend, reply[g]) /\ UNCHANGED disruptions
     \/ ExchangeFails(g)
     \/ Fault("garble")
  /\ TokenRequestFailed(g)

RefreshIsRejected(g) ==
  /\ pc[g] = "refresh"
  /\ \/ cache.refresh \notin liveRefresh /\ UNCHANGED disruptions
     \/ Fault("refuse")

\* (wrong variants) A rejected refresh ends the call instead of logging in; it
\* makes GetToken start over with the refresh token it has.
RefreshRejectedGivesUp(g) == RefreshIsRejected(g) /\ TokenRequestFailed(g)

RefreshRejectedStartsOver(g) ==
  /\ RefreshIsRejected(g)
  /\ mu' = Nobody
  /\ pc' = [pc EXCEPT ![g] = "getToken"]
  /\ UNCHANGED <<attempt, token, result, cancelled, reply, rejected, executed,
                 backend, cache, loggedOut, serverVars>>

\* A 4xx on the refresh: the refresh token is dropped and the same GetToken
\* call goes on with a login.
RefreshRejected(g) ==
  /\ RefreshIsRejected(g)
  /\ cache' = DropRefresh(cache)
  /\ pc' = [pc EXCEPT ![g] = "login"]
  /\ UNCHANGED <<attempt, token, result, cancelled, reply, rejected, executed,
                 backend, mu, loggedOut, serverVars>>

\* No grant: a transport error, a 5xx on the refresh, any status >= 400 on
\* the login.  A token endpoint that reached MaxGrants refuses everything.
GrantRefused(g) ==
  /\ pc[g] \in {"refresh", "login"}
  /\ \/ ExchangeFails(g)
     \/ Fault("refuse")
     \/ issued = MaxGrants /\ UNCHANGED disruptions
  /\ TokenRequestFailed(g)

-----------------------------------------------------------------------------
(* The server's side of a request, up to the response reaching do().       *)

Answer(g, times, r) ==
  /\ pc[g] = "send"
  /\ pc' = [pc EXCEPT ![g] = "answered"]
  /\ executed' = [executed EXCEPT ![g] = @ + times]
  /\ result' = [result EXCEPT ![g] = r]
  /\ UNCHANGED <<attempt, token, cancelled, reply, rejected, sourceVars, serverVars>>

\* The operation is executed: it succeeds, or it fails with a status that may
\* leave an effect behind (260, a 5xx), or the response does not decode, or
\* it never arrives.
Execute(g) ==
  /\ token[g] \in liveAccess
  /\ \/ Answer(g, 1, "ok") /\ UNCHANGED disruptions
     \/ Answer(g, 1, "apiError") /\ Fault("refuse")
     \/ Answer(g, 1, "decodeError") /\ Fault("garble")
     \/ Answer(g, 1, "transportError") /\ ExchangeFails(g)

RejectToken(g) ==
  /\ token[g] \notin liveAccess
  /\ Answer(g, 0, "unauthorized")
  /\ UNCHANGED disruptions

\* The operation is not executed, for a reason other than the token.
Refuse(g) ==
  \/ Answer(g, 0, "apiError") /\ Fault("refuse")
  \/ Answer(g, 0, "transportError") /\ ExchangeFails(g)

-----------------------------------------------------------------------------
(* do() handles the response.                                              *)

\* The loop goes around, leaving c in the token cache.
Replay(g, c) ==
  /\ pc[g] = "answered"
  /\ mu = Nobody
  /\ cache' = c
  /\ rejected' = [rejected EXCEPT ![g] = token[g]]
  /\ token' = [token EXCEPT ![g] = NoToken]
  /\ result' = [result EXCEPT ![g] = "none"]
  /\ attempt' = [attempt EXCEPT ![g] = @ + 1]
  /\ pc' = [pc EXCEPT ![g] = "getToken"]
  /\ UNCHANGED <<cancelled, reply, executed, backend, mu, loggedOut, serverVars, disruptions>>

\* (wrong variants) Every 401 is replayed, not only the first; the rejected
\* token stays cached; a failed request is replayed like a rejected one.
ReplayOn401Forever(g) ==
  result[g] = "unauthorized" /\ Replay(g, DropAccess(cache))

ReplayOn401Cached(g) ==
  result[g] = "unauthorized" /\ attempt[g] = 0 /\ Replay(g, cache)

ReplayOnError(g) ==
  result[g] \in {"unauthorized", "apiError"} /\ attempt[g] = 0 /\ Replay(g, DropAccess(cache))

\* A first 401: InvalidateToken under the mutex, then the request is replayed.
ReplayOn401(g) ==
  result[g] = "unauthorized" /\ attempt[g] = 0 /\ Replay(g, DropAccess(cache))

Finish(g) ==
  /\ pc[g] = "answered"
  /\ pc' = [pc EXCEPT ![g] = "idle"]
  /\ UNCHANGED <<attempt, token, result, cancelled, reply, rejected, executed,
                 sourceVars, serverVars, disruptions>>

\* (wrong variant) The first 401 is returned to the caller.
ReturnFirst401(g) == Finish(g)

\* Everything else ends the call: result is what it returns.
Return(g) == (result[g] # "unauthorized" \/ attempt[g] # 0) /\ Finish(g)

-----------------------------------------------------------------------------
(* Client.Logout: selfManagedAuth has a Logout of its own, the other two   *)
(* backends only drop the access token.                                    *)

LogoutEnds(g, r) ==
  /\ pc' = [pc EXCEPT ![g] = "idle"]
  /\ result' = [result EXCEPT ![g] = r]
  /\ UNCHANGED <<attempt, token, cancelled, reply, rejected, executed, backend, issued>>

LogoutLocally(g) ==
  /\ pc[g] = "logout"
  /\ mu = Nobody
  /\ backend # SelfManaged
  /\ cache' = DropAccess(cache)
  /\ loggedOut' = TRUE
  /\ LogoutEnds(g, "loggedOut")
  /\ UNCHANGED <<mu, liveAccess, liveRefresh, disruptions>>

NothingCached == cache.access = NoToken /\ cache.refresh = NoToken

LogoutNothing(g) ==
  /\ pc[g] = "logout"
  /\ mu = Nobody
  /\ backend = SelfManaged
  /\ NothingCached
  /\ loggedOut' = TRUE
  /\ LogoutEnds(g, "loggedOut")
  /\ UNCHANGED <<mu, cache, liveAccess, liveRefresh, disruptions>>

PostLogout(g) ==
  /\ pc[g] = "logout"
  /\ mu = Nobody
  /\ backend = SelfManaged
  /\ ~NothingCached
  /\ PostLocked(g, "logoutPost")

\* The server deactivates the tokens it was sent.
Deactivate ==
  /\ liveAccess' = liveAccess \ {cache.access}
  /\ liveRefresh' = liveRefresh \ {cache.refresh}

LogoutLeaving(g, c) ==
  /\ pc[g] = "logoutPost"
  /\ Deactivate
  /\ cache' = c
  /\ loggedOut' = TRUE
  /\ mu' = Nobody
  /\ LogoutEnds(g, "loggedOut")
  /\ UNCHANGED disruptions

\* (wrong variant) Logout leaves the refresh token in the cache.
LogoutAcceptedKeepsRefresh(g) == LogoutLeaving(g, DropAccess(cache))

LogoutAccepted(g) == LogoutLeaving(g, DropBoth(cache))

\* A status >= 400 or a transport error leaves the cache as it was, although
\* the server may have deactivated the tokens.
LogoutFailed(g) ==
  /\ pc[g] = "logoutPost"
  /\ Fault("refuse") \/ ExchangeFails(g)
  /\ Deactivate \/ UNCHANGED <<liveAccess, liveRefresh>>
  /\ mu' = Nobody
  /\ LogoutEnds(g, "logoutError")
  /\ UNCHANGED <<cache, loggedOut>>

-----------------------------------------------------------------------------
(* Time passes, and the server revokes tokens.                             *)

Disrupt(kind) ==
  /\ Fault(kind)
  /\ UNCHANGED <<callVars, backend, mu, loggedOut, issued>>

AccessExpires ==
  /\ Disrupt("expire")
  /\ cache.accessExpiry = "future"
  /\ cache' = [cache EXCEPT !.accessExpiry = "past"]
  /\ UNCHANGED <<liveAccess, liveRefresh>>

RefreshExpires ==
  /\ Disrupt("expire")
  /\ cache.refreshExpiry = "future"
  /\ cache' = [cache EXCEPT !.refreshExpiry = "past"]
  /\ UNCHANGED <<liveAccess, liveRefresh>>

RevokeAccess(t) ==
  /\ Disrupt("revoke")
  /\ liveAccess' = liveAccess \ {t}
  /\ UNCHANGED <<cache, liveRefresh>>

RevokeRefresh(t) ==
  /\ Disrupt("revoke")
  /\ liveRefresh' = liveRefresh \ {t}
  /\ UNCHANGED <<cache, liveAccess>>

-----------------------------------------------------------------------------
GetTokenStep(g)     == UseCachedToken(g) \/ StartRefresh(g) \/ StartLogin(g)
TokenReplyStep(g)   == \/ \E s \in Shapes : Grant(g, s)
                       \/ GrantReceived(g) \/ GrantWasted(g)
                       \/ RefreshRejected(g) \/ GrantRefused(g)
ServerStep(g)       == Execute(g) \/ RejectToken(g) \/ Refuse(g)
LogoutStep(g)       == LogoutLocally(g) \/ LogoutNothing(g) \/ PostLogout(g)
LogoutReplyStep(g)  == LogoutAccepted(g) \/ LogoutFailed(g)
Begin(g)            == BeginCall(g) \/ BeginLogout(g)
Environment         == \/ AccessExpires
                       \/ RefreshExpires
                       \/ \E t \in liveAccess : RevokeAccess(t)
                       \/ \E t \in liveRefresh : RevokeRefresh(t)

Next ==
  \/ \E g \in Callers :
       \/ Begin(g) \/ Cancel(g)
       \/ GetTokenStep(g) \/ TokenReplyStep(g)
       \/ ServerStep(g) \/ ReplayOn401(g) \/ Return(g)
       \/ LogoutStep(g) \/ LogoutReplyStep(g)
  \/ Environment

Spec == Init /\ [][Next]_vars

(***************************************************************************)
(* Fairness.  net/http ends every exchange: the SDK's own http.Client has  *)
(* a timeout, so the token endpoint, the API and the logout endpoint each  *)
(* answer or fail.  A goroutine asking for the mutex competes with others  *)
(* that take it again and again, but a starved waiter of a Go sync.Mutex   *)
(* is handed the lock: strong fairness.  Nobody has to begin a call, to    *)
(* cancel one, or to disturb a token.                                      *)
(***************************************************************************)
MutexFairness(g)    == /\ SF_vars(GetTokenStep(g))
                       /\ SF_vars(ReplayOn401(g))
                       /\ SF_vars(LogoutStep(g))
ExchangeFairness(g) == /\ WF_vars(TokenReplyStep(g))
                       /\ WF_vars(ServerStep(g))
                       /\ WF_vars(LogoutReplyStep(g))
Fairness == \A g \in Callers :
              MutexFairness(g) /\ ExchangeFairness(g) /\ WF_vars(Return(g))

LiveSpec == Spec /\ Fairness

(***************************************************************************)
(* The same with a custom http.Client that has no timeout of its own: an   *)
(* exchange is only certain to end once its context is done.               *)
(***************************************************************************)
NoTimeoutFairness ==
  \A g \in Callers :
    /\ MutexFairness(g)
    /\ WF_vars(Return(g))
    /\ WF_vars(cancelled[g] /\ TokenReplyStep(g))
    /\ WF_vars(cancelled[g] /\ ServerStep(g))
    /\ WF_vars(cancelled[g] /\ LogoutReplyStep(g))

NoTimeoutSpec == Spec /\ NoTimeoutFairness

-----------------------------------------------------------------------------
(* Safety.                                                                 *)

\* Every variable has its type.
TypeOK ==
  /\ backend \in Backends
  /\ mu \in Callers \cup {Nobody}
  /\ cache \in TokenCache
  /\ pc \in [Callers -> Points]
  /\ attempt \in [Callers -> {0, 1}]
  /\ token \in [Callers -> Nat]
  /\ result \in [Callers -> Results]
  /\ reply \in [Callers -> TokenResponse]
  /\ cancelled \in [Callers -> BOOLEAN]
  /\ rejected \in [Callers -> Nat]
  /\ executed \in [Callers -> Nat]
  /\ loggedOut \in BOOLEAN
  /\ issued \in 0 .. MaxGrants
  /\ liveAccess \subseteq Nat
  /\ liveRefresh \subseteq Nat
  /\ disruptions \in 0 .. MaxDisruptions

(***************************************************************************)
(* The replay of do() (client.go:422) never carries the token that was     *)
(* rejected, nor one issued before it: whatever other goroutines renew,    *)
(* invalidate or log out in between, the second attempt is made with a     *)
(* token of a later grant (or without one, when the endpoint sent none).   *)
(***************************************************************************)
ReplayIsFresh ==
  \A g \in Callers :
    (attempt[g] = 1 /\ token[g] # NoToken) => token[g] > rejected[g]

(***************************************************************************)
(* A 401 reaches the caller of do() only after the replay, and only when   *)
(* the server had stopped accepting both tokens: a caller whose token was  *)
(* merely stale never sees it.                                             *)
(***************************************************************************)
UnauthorizedIsGenuine ==
  \A g \in Callers :
    (pc[g] = "idle" /\ result[g] = "unauthorized") =>
      /\ attempt[g] = 1
      /\ rejected[g] \notin liveAccess
      /\ token[g] \notin liveAccess

(***************************************************************************)
(* The mutex held across the whole refresh (selfmanaged.go:53, oauth2.go:  *)
(* 81, oidc.go:70) keeps replies in the order of their grants: a cached    *)
(* token is never overwritten by one that was issued earlier.              *)
(***************************************************************************)
NewestGrantKept ==
  [][/\ cache'.access # NoToken => cache'.access >= cache.access
     /\ cache'.refresh # NoToken => cache'.refresh >= cache.refresh]_vars

(***************************************************************************)
(* After Logout returned nil, the next grant comes from the stored         *)
(* credentials (client.go:193): no refresh is tried before a login has     *)
(* been granted, although other calls and a failed login run meanwhile.    *)
(***************************************************************************)
LoginFollowsLogout ==
  loggedOut => \A g \in Callers : pc[g] # "refresh"

\* The same of SELF_MANAGED deployments, whose Logout clears both tokens.
SelfManagedLoginFollowsLogout ==
  backend = SelfManaged => LoginFollowsLogout

(***************************************************************************)
(* No refresh stampede (SPEC.md:44): the first call and each disruption    *)
(* of a token cost at most one grant, however many goroutines notice.      *)
(***************************************************************************)
OneGrantPerDisruption == issued <= 1 + disruptions

(***************************************************************************)
(* What the 401 handling costs at most: InvalidateToken (selfmanaged.go:   *)
(* 95, oauth2.go:130, oidc.go:113) drops whatever is cached, so each other *)
(* goroutine may still bring a late 401 for every token that died on the   *)
(* server, and no renewal is made for any other reason.                    *)
(***************************************************************************)
GrantsPerDisruption ==
  issued <= 1 + disruptions
              + (Cardinality(Callers) - 1) * Cardinality((1 .. issued) \ liveAccess)

(***************************************************************************)
(* What a caller of do() may conclude from its outcome, as a specification *)
(* of its own.  The mutex, the tokens and the replay are hidden.           *)
(***************************************************************************)
Call == INSTANCE OneShotCall WITH
  phase   <- [g \in Callers |-> IF pc[g] = "idle" THEN "idle" ELSE "open"],
  effects <- executed,
  outcome <- [g \in Callers |-> IF pc[g] = "idle" THEN result[g] ELSE "none"]

\* Every request and logout is a one-shot call, whatever the 401 replay does.
CallsAreOneShot == Call!Spec

-----------------------------------------------------------------------------
(* Liveness.                                                               *)

\* Every call returns (client.go:403): the replay loop ends and the mutex is
\* released on every path of GetToken and Logout, the failing ones included.
EveryCallReturns ==
  \A g \in Callers : pc[g] # "idle" ~> pc[g] = "idle"

LogoutRunning == \E g \in Callers : pc[g] \in {"logout", "logoutPost"}

(***************************************************************************)
(* Once nothing goes wrong any more and nobody logs out, a call that       *)
(* begins succeeds, whatever the cache was left with: one replay           *)
(* (client.go:422) and one fall-back from refresh to login are enough.     *)
(***************************************************************************)
CallsRecover ==
  \A g \in Callers :
    (/\ pc[g] = "getToken" /\ attempt[g] = 0
     /\ disruptions = MaxDisruptions /\ ~LogoutRunning)
      ~> (pc[g] = "idle" /\ (result[g] = "ok" \/ cancelled[g]))

(***************************************************************************)
(* A cancelled call returns (doc.go:112: "Every method accepts a           *)
(* context.Context for cancellation and timeouts"), whatever the server    *)
(* does to the calls of other goroutines.                                  *)
(***************************************************************************)
CancelledCallReturns ==
  \A g \in Callers : (cancelled[g] /\ pc[g] # "idle") ~> pc[g] = "idle"
=============================================================================
