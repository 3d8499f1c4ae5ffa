----------------------------- MODULE Exchanges ------------------------------
(***************************************************************************)
(* One goroutine's calls, response by response: what Client.do, the token  *)
(* sources and Client.Logout make of concrete statuses and bodies, and     *)
(* what the caller is told.  KmsClient has the same calls, of several      *)
(* goroutines, with responses reduced to classes.                          *)
(***************************************************************************)
EXTENDS TokenSources, Methods, Decoding

CONSTANTS
  Backends,        \* the backends Connect may have chosen
  Properties,      \* accessTokenProperty of a generic OIDC deployment
  CallMethods,     \* the methods called
  Correlations,    \* the correlation ids of the callers' contexts, "" for none
  TokenNames,      \* the sets of token properties of a granted reply
  TokenErrors,     \* the bodies of the token endpoint's errors
  AuthStatuses,    \* the statuses of refused token and logout requests
  APIErrors,       \* the bodies of the API's errors
  Statuses,        \* the statuses of refused requests to the API
  MaxGrants,       \* bound: grants the token endpoint issues
  MaxDisruptions   \* bound: expiries, revocations and logouts

\* A "status_code" in an error body is that of an error, and the body has no
\* tokens; the bodies of the KMS API, as errors.go:88 documents them, have no
\* "status_code".
ASSUME ConstantsOK ==
  /\ Backends \subseteq AllBackends
  /\ CallMethods \subseteq AllMethods
  /\ \A s \in Statuses : s \in 300 .. 599 /\ s # 401
  /\ AuthStatuses \subseteq {statusKeyAttributesDifferent} \cup (300 .. 599)
  /\ \A b \in TokenErrors :
       b.status_code \in {0} \cup (400 .. 599) /\ b.tokens = {} /\ ~b.refresh
  /\ \A b \in APIErrors : b.status_code = 0
  /\ MaxGrants \in Nat /\ MaxDisruptions \in Nat

VARIABLES
  backend,      \* c.tokenSource
  property,     \* its tokenProperty
  cache,        \* its cached tokens
  picked,       \* the property of the reply the cached access token was in
  pc,           \* where the call is
  method,       \* the method called
  correlation,  \* the correlation id of its context
  attempt,      \* do(): the loop counter
  token,        \* do(): the bearer token of the attempt
  response,     \* the response on its way, or the last one handled
  returned,     \* the error the call returned
  value,        \* whether it returned a decoded result
  executed,     \* history: how often the server executed the operation
  sent,         \* history: the requests of the call
  refreshed,    \* history: the answer to the refresh of this GetToken
  issued,       \* the server: grants issued so far
  liveAccess,   \* the server: the access tokens it accepts
  liveRefresh,  \* the server: the refresh tokens it accepts
  disruptions   \* bound

sourceVars == <<backend, property, cache, picked>>
contextVars == <<method, correlation>>
outcomeVars == <<returned, value>>
historyVars == <<executed, sent, refreshed>>
serverVars == <<issued, liveAccess, liveRefresh>>
vars == <<sourceVars, contextVars, pc, attempt, token, response, outcomeVars,
          historyVars, serverVars, disruptions>>

AtTokenEndpoint == {"refresh", "login"}
Points == {"idle", "unsupported", "getToken", "refreshAnswered", "loginAnswered",
           "sent", "answered", "logout", "logoutPost", "logoutAnswered"} \cup AtTokenEndpoint

Init ==
  /\ backend \in Backends
  /\ property \in IF backend = Other THEN Properties ELSE {<<>>}
  /\ cache = EmptyCache /\ picked = <<>>
  /\ pc = "idle" /\ method = GetKey /\ correlation = "" /\ attempt = 0 /\ token = NoToken
  /\ response = NoResponse /\ returned = Plain("none") /\ value = FALSE
  /\ executed = 0 /\ sent = {} /\ refreshed = NoResponse
  /\ issued = 0 /\ liveAccess = {} /\ liveRefresh = {} /\ disruptions = 0

-----------------------------------------------------------------------------
(* A call begins and ends.                                                 *)

WithCorrelationID(id) == correlation' = id

Start(id, at) ==
  /\ pc = "idle"
  /\ pc' = at
  /\ WithCorrelationID(id)
  /\ attempt' = 0 /\ token' = NoToken
  /\ response' = NoResponse /\ returned' = Plain("none") /\ value' = FALSE
  /\ executed' = 0 /\ sent' = {} /\ refreshed' = NoResponse
  /\ UNCHANGED <<sourceVars, serverVars>>

Begin(m, id) ==
  /\ Start(id, IF Supported(m) THEN "getToken" ELSE "unsupported")
  /\ method' = m
  /\ UNCHANGED disruptions

BeginLogout(id) ==
  /\ disruptions < MaxDisruptions
  /\ Start(id, "logout")
  /\ disruptions' = disruptions + 1
  /\ UNCHANGED method

Return(error, decoded) ==
  /\ pc' = "idle"
  /\ returned' = error
  /\ value' = decoded

\* Crypto of an operation that is neither encrypt nor decrypt.
RefuseOperation ==
  /\ pc = "unsupported"
  /\ Return(Plain("unsupported"), FALSE)
  /\ UNCHANGED <<sourceVars, contextVars, attempt, token, response, historyVars,
                 serverVars, disruptions>>

-----------------------------------------------------------------------------
(* Requests.                                                               *)

APIRequest(body, id) ==
  [to |-> "api", name |-> method.name, body |-> body, correlation |-> id,
   media |-> IF ~body THEN "" ELSE IF method.media = "" THEN "json" ELSE method.media]

\* (wrong variant) The reader of the body is made once: the replay sends none.
newRequestReadOnce == APIRequest(method.body /\ attempt = 0, correlation)

newRequest == APIRequest(method.body, correlation)

\* To the token endpoint or, of a SELF_MANAGED Logout, the logout endpoint.
TokenRequest == [to |-> "token", name |-> "", body |-> TRUE, correlation |-> "",
                 media |-> IF backend = SelfManaged THEN "json" ELSE "form"]

SendWith(t) ==
  /\ token' = t
  /\ sent' = sent \cup {newRequest}
  /\ pc' = "sent"

UseCachedToken ==
  /\ pc = "getToken"
  /\ AccessUsable(backend, cache)
  /\ SendWith(cache.access)
  /\ UNCHANGED <<sourceVars, contextVars, attempt, response, outcomeVars, executed,
                 refreshed, serverVars, disruptions>>

Post(at) ==
  /\ pc' = at
  /\ sent' = sent \cup {TokenRequest}
  /\ UNCHANGED <<backend, property, picked, contextVars, attempt, token, response,
                 outcomeVars, executed, serverVars, disruptions>>

StartRefresh ==
  /\ pc = "getToken"
  /\ ~AccessUsable(backend, cache) /\ RefreshUsable(backend, cache)
  /\ refreshed' = NoResponse
  /\ Post("refresh")
  /\ UNCHANGED cache

StartLogin ==
  /\ pc = "getToken"
  /\ ~AccessUsable(backend, cache) /\ ~RefreshUsable(backend, cache)
  /\ refreshed' = NoResponse
  /\ Post("login")
  /\ UNCHANGED cache

-----------------------------------------------------------------------------
(* The token endpoint.                                                     *)

TokenAnswered(r) ==
  /\ pc' = IF pc = "refresh" THEN "refreshAnswered" ELSE "loginAnswered"
  /\ response' = r
  /\ refreshed' = IF pc = "refresh" THEN r ELSE refreshed
  /\ UNCHANGED <<sourceVars, contextVars, attempt, token, outcomeVars, executed, sent, disruptions>>

\* The id of a response: KMS endpoints generate one when the request has none.
TokenEndpointId == IF backend = SelfManaged THEN "generated" ELSE ""

TokenResponded(status, body) ==
  TokenAnswered([status |-> status, correlation |-> TokenEndpointId, body |-> body])

\* A grant, whose reply may be lost or not have the types expected.
Grant(names, withRefresh) ==
  /\ pc \in AtTokenEndpoint
  /\ pc = "refresh" => cache.refresh \in liveRefresh
  /\ issued < MaxGrants
  /\ issued' = issued + 1
  /\ liveAccess' = liveAccess \cup {issued + 1}
  /\ liveRefresh' = IF withRefresh THEN liveRefresh \cup {issued + 1} ELSE liveRefresh
  /\ \/ TokenAnswered(NoResponse)
     \/ \E form \in {"json", "mistyped", "text"} :
          TokenResponded(200, IF form = "text" THEN Text
                              ELSE [Object EXCEPT !.form = form, !.tokens = names,
                                                  !.refresh = withRefresh])

\* The body of a redirect is not looked at further.
BodyOf(status, body) == IF status \in 300 .. 399 THEN Text ELSE body

NoGrant ==
  /\ pc \in AtTokenEndpoint
  /\ \/ TokenAnswered(NoResponse)
     \/ \E status \in AuthStatuses, body \in TokenErrors :
          TokenResponded(status, BodyOf(status, body))
  /\ UNCHANGED serverVars

-----------------------------------------------------------------------------
(* requestToken handles the answer.                                        *)

\* oidcAuth decodes into a map, to which no field is mistyped.
TokenDecodes(body) ==
  body.form = "json" \/ (backend = Other /\ body.form = "mistyped")

PropertyOf(body) ==
  IF backend = Other THEN PropertyPicked(property, body)
  ELSE IF access_token \in body.tokens THEN access_token ELSE <<>>

\* The error of requestToken, "none" for a nil error.
TokenError(r) ==
  CASE r.status = 0               -> Plain("transport")
    [] r.status >= 400            -> newAPIError(r, "errorGettingToken")
    [] r.status \in 1 .. 399 /\ ~TokenDecodes(r.body) -> Plain("decode")
    [] r.status \in 1 .. 399 /\ TokenDecodes(r.body)  ->
         IF backend = Other /\ PropertyOf(r.body) = <<>> THEN Plain("noProperty") ELSE Plain("none")

\* The tokens of a reply.  A field of another type, expires_in, is not read,
\* and a body without tokens has none.
Reply(body) ==
  [access  |-> IF PropertyOf(body) = <<>> THEN NoToken ELSE issued,
   refresh |-> IF body.refresh THEN issued ELSE NoToken,
   expires |-> body.form = "json" /\ body.tokens # {},
   refreshExpires |-> body.form = "json" /\ body.tokens # {}]

TokenReceived ==
  /\ pc \in {"refreshAnswered", "loginAnswered"}
  /\ TokenError(response).kind = "none"
  /\ cache' = Store(backend, cache, Reply(response.body))
  /\ picked' = PropertyOf(response.body)
  /\ SendWith(Reply(response.body).access)
  /\ UNCHANGED <<backend, property, contextVars, attempt, response, outcomeVars, executed,
                 refreshed, serverVars, disruptions>>

\* (wrong variant) Any API error of the refresh counts as a rejection.
AnyAPIErrorRejects(error) == error.kind = "api"

RejectsRefresh(error) == error.kind = "api" /\ error.StatusCode < 500

FallBackToLogin ==
  /\ pc = "refreshAnswered"
  /\ RejectsRefresh(TokenError(response))
  /\ cache' = DropRefresh(cache)
  /\ Post("login")
  /\ UNCHANGED refreshed

TokenFails ==
  /\ pc \in {"refreshAnswered", "loginAnswered"}
  /\ TokenError(response).kind # "none"
  /\ pc = "refreshAnswered" => ~RejectsRefresh(TokenError(response))
  /\ Return(TokenError(response), FALSE)
  /\ UNCHANGED <<sourceVars, contextVars, attempt, token, response, historyVars,
                 serverVars, disruptions>>

-----------------------------------------------------------------------------
(* The API's side of a request.                                            *)

Answer(times, r) ==
  /\ pc = "sent"
  /\ pc' = "answered"
  /\ executed' = executed + times
  /\ response' = r
  /\ UNCHANGED <<sourceVars, contextVars, attempt, token, outcomeVars, sent, refreshed,
                 serverVars, disruptions>>

\* The server echoes the id of the request, or generates one.
EchoedId == IF correlation = "" THEN "generated" ELSE correlation

Responded(times, status, body) ==
  Answer(times, [status |-> status, correlation |-> EchoedId, body |-> body])

\* Executed, and the response arrives, is lost, or does not decode.
Execute ==
  /\ token \in liveAccess
  /\ \/ \E form \in {"json", "mistyped"} :
          Responded(1, 200, [Object EXCEPT !.form = form, !.result = TRUE])
     \/ Responded(1, 200, Text)
     \/ Answer(1, NoResponse)

\* The import happened, or not, and the attributes differ.
AttributesDiffer(times, body) ==
  /\ token \in liveAccess
  /\ method \in Imports
  /\ Responded(times, statusKeyAttributesDifferent, body)

\* Any other error: only a server failure may leave an effect behind.
Refuse(times, status, body) ==
  /\ times = 1 => status >= 500 /\ token \in liveAccess
  /\ Responded(times, status, BodyOf(status, body))

RejectToken(body) ==
  /\ token \notin liveAccess
  /\ Responded(0, 401, body)

NeverArrives == Answer(0, NoResponse)

-----------------------------------------------------------------------------
(* do() handles the response.                                              *)

Replay ==
  /\ pc = "answered"
  /\ cache' = DropAccess(cache)
  /\ attempt' = attempt + 1
  /\ token' = NoToken
  /\ pc' = "getToken"
  /\ UNCHANGED <<backend, property, picked, contextVars, response, outcomeVars, historyVars,
                 serverVars, disruptions>>

\* (wrong variants) Every 401 is replayed; a failed request is replayed too.
ReplayOn401Forever == response.status = 401 /\ Replay
ReplayOnError == response.status >= 400 /\ attempt = 0 /\ Replay

ReplayOn401 == response.status = 401 /\ attempt = 0 /\ Replay

\* (wrong variant) Only statuses from 400 on are errors.
IsErrorFrom400(status) == status >= 400

IsError(status) == status >= 400 \/ status = statusKeyAttributesDifferent

Outcome ==
  IF response.status = 0 THEN Plain("transport")
  ELSE IF IsError(response.status) THEN newAPIError(response, "")
  ELSE IF method.result /\ response.body.form # "json" THEN Plain("decode")
  ELSE Plain("ok")

Finish ==
  /\ pc = "answered"
  /\ ~(response.status = 401 /\ attempt = 0)
  /\ Return(Outcome, Outcome.kind = "ok" /\ method.result /\ response.body.result)
  /\ UNCHANGED <<sourceVars, contextVars, attempt, token, response, historyVars,
                 serverVars, disruptions>>

-----------------------------------------------------------------------------
(* Client.Logout.                                                          *)

NothingCached == cache.access = NoToken /\ cache.refresh = NoToken

\* No request: of OAUTH2 deployments, and with nothing to deactivate.
LogoutLocally ==
  /\ pc = "logout"
  /\ backend # SelfManaged \/ NothingCached
  /\ cache' = IF backend = SelfManaged THEN cache ELSE DropAccess(cache)
  /\ Return(Plain("loggedOut"), FALSE)
  /\ UNCHANGED <<backend, property, picked, contextVars, attempt, token, response,
                 historyVars, serverVars, disruptions>>

PostLogout ==
  /\ pc = "logout"
  /\ backend = SelfManaged /\ ~NothingCached
  /\ Post("logoutPost")
  /\ UNCHANGED <<cache, refreshed>>

LogoutResponds(r) ==
  /\ pc = "logoutPost"
  /\ pc' = "logoutAnswered"
  /\ response' = r
  /\ UNCHANGED <<sourceVars, contextVars, attempt, token, outcomeVars, historyVars,
                 issued, disruptions>>

\* The tokens are deactivated or not; a server failure may come after the fact.
LogoutEndpoint == \E deactivated \in BOOLEAN :
  /\ liveAccess' = IF deactivated THEN liveAccess \ {cache.access} ELSE liveAccess
  /\ liveRefresh' = IF deactivated THEN liveRefresh \ {cache.refresh} ELSE liveRefresh
  /\ \/ LogoutResponds(NoResponse)
     \/ /\ deactivated
        /\ LogoutResponds([NoResponse EXCEPT !.status = 204, !.correlation = "generated"])
     \/ \E status \in AuthStatuses, body \in APIErrors :
          /\ deactivated => status >= 500
          /\ LogoutResponds([status |-> status, correlation |-> "generated",
                             body |-> BodyOf(status, body)])

LogoutError ==
  IF response.status = 0 THEN Plain("transport")
  ELSE IF response.status >= 400 THEN newAPIError(response, "errorLoggingOut")
  ELSE Plain("loggedOut")

LogoutReturns ==
  /\ pc = "logoutAnswered"
  /\ cache' = IF LogoutError.kind = "loggedOut" THEN DropBoth(cache) ELSE cache
  /\ Return(LogoutError, FALSE)
  /\ UNCHANGED <<backend, property, picked, contextVars, attempt, token, response,
                 historyVars, serverVars, disruptions>>

-----------------------------------------------------------------------------
(* Time passes, and the server revokes tokens, while no call runs or       *)
(* before its request arrives.                                             *)

Disrupt ==
  /\ disruptions < MaxDisruptions
  /\ pc \in {"idle", "sent"}
  /\ disruptions' = disruptions + 1
  /\ UNCHANGED <<backend, property, picked, contextVars, pc, attempt, token, response,
                 outcomeVars, historyVars, issued>>

Expire ==
  /\ Disrupt
  /\ cache.accessExpiry = "future"
  /\ cache' = [cache EXCEPT !.accessExpiry = "past"]
  /\ UNCHANGED <<liveAccess, liveRefresh>>

Revoke ==
  /\ Disrupt
  /\ liveAccess' = {}
  /\ liveRefresh' \in {{}, liveRefresh}
  /\ UNCHANGED cache

-----------------------------------------------------------------------------
GetTokenStep == UseCachedToken \/ StartRefresh \/ StartLogin
TokenEndpoint ==
  \/ \E names \in TokenNames, withRefresh \in BOOLEAN : Grant(names, withRefresh)
  \/ NoGrant
TokenReplyStep == TokenReceived \/ FallBackToLogin \/ TokenFails
API ==
  \/ Execute \/ NeverArrives
  \/ \E body \in APIErrors :
       \/ \E times \in {0, 1} : AttributesDiffer(times, body)
       \/ \E times \in {0, 1}, status \in Statuses : Refuse(times, status, body)
       \/ RejectToken(body)

Next ==
  \/ \E id \in Correlations : BeginLogout(id) \/ \E m \in CallMethods : Begin(m, id)
  \/ RefuseOperation
  \/ GetTokenStep \/ TokenEndpoint \/ TokenReplyStep
  \/ API \/ ReplayOn401 \/ Finish
  \/ LogoutLocally \/ PostLogout \/ LogoutEndpoint \/ LogoutReturns
  \/ Expire \/ Revoke

Spec == Init /\ [][Next]_vars

-----------------------------------------------------------------------------
(* Safety.                                                                 *)

Kinds == {"none", "ok", "api", "transport", "decode", "noProperty", "unsupported", "loggedOut"}

\* Every variable has its type.
TypeOK ==
  /\ backend \in Backends /\ cache \in TokenCache
  /\ pc \in Points /\ method \in AllMethods
  /\ attempt \in {0, 1} /\ token \in Nat
  /\ returned.kind \in Kinds /\ value \in BOOLEAN
  /\ executed \in Nat
  /\ issued \in 0 .. MaxGrants
  /\ liveAccess \subseteq 1 .. issued /\ liveRefresh \subseteq 1 .. issued
  /\ disruptions \in 0 .. MaxDisruptions

(***************************************************************************)
(* What a caller can tell from the error alone: its type, and the status   *)
(* of an APIError, whichever endpoint it came from.                        *)
(***************************************************************************)
Seen(error) ==
  CASE error.kind = "api" /\ error.StatusCode = 401 -> "unauthorized"
    [] error.kind = "api" /\ error.StatusCode # 401 -> "apiError"
    [] error.kind = "transport" -> "transportError"
    [] error.kind = "decode" -> "decodeError"
    [] error.kind \in {"noProperty", "unsupported"} -> "tokenError"
    [] error.kind \in {"none", "ok", "loggedOut"} -> error.kind

Caller == "caller"

Call == INSTANCE OneShotCall WITH
  Callers <- {Caller},
  phase   <- [g \in {Caller} |-> IF pc = "idle" THEN "idle" ELSE "open"],
  effects <- [g \in {Caller} |-> executed],
  outcome <- [g \in {Caller} |-> IF pc = "idle" THEN Seen(returned) ELSE "none"]

\* The error alone tells a caller what OneShotCall says of each outcome: a
\* 401 that nothing was executed, a nil error that the operation was, once,
\* although both may come after a replay or from the token endpoint.
ErrorsAreOneShot == Call!Spec

(***************************************************************************)
(* A nil error comes with the result of the operation that was executed    *)
(* (client.go:433: a 260 "cannot decode into a zero-valued result"), and   *)
(* an error with none.                                                     *)
(***************************************************************************)
ResultComesWithSuccess ==
  pc = "idle" => (value <=> returned.kind = "ok" /\ method.result)

(***************************************************************************)
(* Callers branch on the code of an APIError (SPEC.md:196): it is the one  *)
(* the server sent in a well-formed body, never the empty string unless    *)
(* net/http has no text for the status, and it names the 260 also when the *)
(* body of that is unreadable.                                             *)
(***************************************************************************)
CodeIsReliable ==
  (pc = "idle" /\ returned.kind = "api") =>
    /\ response.status \in NamedStatuses \cup {260} => returned.Code # ""
    /\ response.body.form = "json" /\ response.body.code # "" =>
         returned.Code = response.body.code
    /\ response.status = 260 /\ (response.body.form # "json" \/ response.body.code = "") =>
         returned.Code = ErrCodeInternalKeyAttributesDiffer

(***************************************************************************)
(* "When the refresh is rejected with a 4xx, drop the refresh token and    *)
(* fall back to a fresh password grant [...] (5xx propagates)"             *)
(* (SPEC.md:103): the credentials follow a refresh only when its response  *)
(* was a 4xx, and after a 5xx the call fails and the refresh token stays.  *)
(* The status is that of the response, whatever its body says.             *)
(***************************************************************************)
LoginFollowsRejection ==
  /\ (pc \in {"login", "loginAnswered"} /\ refreshed # NoResponse) =>
       refreshed.status \in 400 .. 499
  /\ (pc = "idle" /\ refreshed.status >= 500) => cache.refresh # NoToken

(***************************************************************************)
(* The bearer token is the property that the discovery configuration names *)
(* (oidc.go:181): in its literal spelling when the reply has it, else in   *)
(* snake_case, and never another token of the reply nor none.              *)
(***************************************************************************)
BearerIsTheNamedProperty ==
  (pc = "sent" /\ backend = Other) =>
    /\ token # NoToken
    /\ picked \in {Named(property), camelToSnake(Named(property))}
    /\ (response.status = 200 /\ Named(property) \in response.body.tokens) =>
         picked = Named(property)

(***************************************************************************)
(* The replay sends what the first attempt sent (client.go:453): the same  *)
(* method with its body, media type and correlation id.                    *)
(***************************************************************************)
APIRequests == {r \in sent : r.to = "api"}

AttemptsAreAlike ==
  \A r, s \in APIRequests : r = s /\ r.name = method.name /\ r.correlation = correlation

(***************************************************************************)
(* Every response whose status is not 2xx yields an APIError               *)
(* (SPEC.md:372).                                                          *)
(***************************************************************************)
NonSuccessYieldsAPIError ==
  (pc = "idle" /\ response.status # 0 /\ response.status \notin 200 .. 299) =>
    returned.kind = "api"
=============================================================================
