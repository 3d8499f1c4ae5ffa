--------------------------- MODULE ExchangesProofs ---------------------------
(***************************************************************************)
(* Proofs, for every choice of backends, methods, error bodies, statuses   *)
(* and bounds, that a call of the SDK tells its caller what happened.      *)
(***************************************************************************)
EXTENDS Exchanges, TokenSourcesProofs, TLAPS

-----------------------------------------------------------------------------
(* The inductive invariant.                                                *)

ErrorCodes == {0} \cup {b.status_code : b \in TokenErrors}

\* No error body of the token endpoint passes itself off as a rejection.
NoOverride == \A b \in TokenErrors : b.status_code \notin 400 .. 499

\* The token and the logout endpoint redirect no request.
NoAuthRedirect == \A s \in AuthStatuses : s = 260 \/ s >= 400

ReplyAnswered == {"refreshAnswered", "loginAnswered"}

\* A response has a status, and its body no status_code but an error's.
ResponseOK(r) == r.status \in Nat /\ r.body.status_code \in ErrorCodes

ResponseInv == ResponseOK(response) /\ ResponseOK(refreshed)

\* Neither informational nor a redirect.
Final(r) == r.status \notin (1 .. 199) \cup (300 .. 399)

\* Every request to the API is the one newRequest builds now.
SentInv == \A r \in sent : r.to = "api" => r = newRequest

Rejected(r) == r.status \in 400 .. 499

\* A refresh that failed without having been rejected.
Retained(r) == r.status >= 500

\* The refresh token stays until its refresh is rejected, where the HTTP
\* status tells rejections apart.
RefreshInv ==
  /\ pc \in {"refresh", "refreshAnswered"} => cache.refresh # NoToken
  /\ pc = "refreshAnswered" => refreshed = response
  /\ pc = "refresh" => refreshed = NoResponse
  /\ NoOverride /\ pc \in {"login", "loginAnswered"} =>
       refreshed = NoResponse \/ Rejected(refreshed)
  /\ NoOverride /\ Retained(refreshed) =>
       pc \in {"refreshAnswered", "idle"} /\ cache.refresh # NoToken

\* What a response of the API says of the number of executions.
APIResponse(times, r) ==
  /\ r.status \in Nat /\ r.body.status_code = 0
  /\ r.status = 401 => times = 0
  /\ r.status # 0 /\ ~IsError(r.status) =>
       \/ times = 1 /\ r.status = 200 /\ (r.body.form = "json" => r.body.result)
       \/ r.status \in Statuses /\ r.body = Text

\* Nothing is executed before a response of the API is on its way.
EffectInv ==
  /\ executed \in {0, 1}
  /\ pc \notin {"idle", "answered"} => executed = 0
  /\ pc = "answered" => APIResponse(executed, response)

\* What a call that returned has returned.
OutcomeInv ==
  pc = "idle" =>
    /\ value <=> returned.kind = "ok" /\ method.result
    /\ returned.kind = "api" =>
         \E fallback \in {"", "errorGettingToken", "errorLoggingOut"} :
           returned = newAPIError(response, fallback)

\* The cached token, and the one on its way, is of the property named.
BearerInv ==
  /\ (backend = Other /\ cache.access # NoToken) =>
       picked \in {Named(property), camelToSnake(Named(property))}
  /\ pc = "getToken" => response.status \in {0, 401}
  /\ (pc \in ReplyAnswered /\ response.status \in 1 .. 399 /\ response.body.tokens # {}) =>
       issued # 0
  /\ BearerIsTheNamedProperty

IInv == TypeOK /\ ResponseInv /\ SentInv /\ RefreshInv /\ EffectInv /\ OutcomeInv /\ BearerInv

-----------------------------------------------------------------------------
(* What the other side answers, and what the decoders make of it.          *)

\* The fields of the bodies that the module names.
LEMMA Bodies ==
  /\ Text.form = "text" /\ Text.status_code = 0
  /\ Object.form = "json" /\ Object.status_code = 0
  /\ NoResponse.status = 0 /\ NoResponse.body = Text
  /\ ResponseOK(NoResponse)
PROOF
  BY DEF Text, Object, NoResponse, ResponseOK, ErrorCodes

\* A body of a success has no status_code, and the rest of what it is given.
LEMMA SuccessBodies ==
  /\ \A form, names, withRefresh :
       [Object EXCEPT !.form = form, !.tokens = names, !.refresh = withRefresh].status_code = 0
  /\ \A form : /\ [Object EXCEPT !.form = form, !.result = TRUE].status_code = 0
              /\ [Object EXCEPT !.form = form, !.result = TRUE].result
PROOF
  BY DEF Text, Object

\* BodyOf(status, body) is Text or the body.
LEMMA BodiesOf ==
  ASSUME NEW status, NEW body
  PROVE  BodyOf(status, body) \in {Text, body}
PROOF
  BY DEF BodyOf

\* The token endpoint's answer has a well-formed status, and is final where
\* the endpoint redirects nothing.
LEMMA TokenEndpointAnswers ==
  ASSUME NEW names, NEW withRefresh, Grant(names, withRefresh) \/ NoGrant
  PROVE  /\ pc \in AtTokenEndpoint
         /\ \E r : TokenAnswered(r) /\ ResponseOK(r) /\ (NoAuthRedirect => Final(r))
PROOF
<1> USE ConstantsOK, Bodies
    DEF ConstantsOK, ResponseOK, ErrorCodes, Final, NoAuthRedirect, statusKeyAttributesDifferent
<1>1. CASE Grant(names, withRefresh)
  <2>1. CASE TokenAnswered(NoResponse)
    BY <1>1, <2>1 DEF Grant
  <2>2. ASSUME NEW form \in {"json", "mistyped", "text"},
               TokenResponded(200, IF form = "text" THEN Text
                                   ELSE [Object EXCEPT !.form = form, !.tokens = names,
                                                       !.refresh = withRefresh])
        PROVE  \E r : TokenAnswered(r) /\ ResponseOK(r) /\ Final(r)
    <3> DEFINE body == IF form = "text" THEN Text
                       ELSE [Object EXCEPT !.form = form, !.tokens = names,
                                           !.refresh = withRefresh]
    <3>1. body.status_code = 0
      <4>1. [Object EXCEPT !.form = form, !.tokens = names, !.refresh = withRefresh].status_code = 0
        BY SuccessBodies
      <4> QED BY <4>1
    <3> HIDE DEF body
    <3>2. TokenResponded(200, body)
      BY <2>2 DEF body
    <3> QED BY <3>1, <3>2 DEF TokenResponded
  <2> QED BY <1>1, <2>1, <2>2 DEF Grant
<1>2. CASE NoGrant
  <2>1. ASSUME NEW status \in AuthStatuses, NEW body \in TokenErrors,
               TokenResponded(status, BodyOf(status, body))
        PROVE  \E r : TokenAnswered(r) /\ ResponseOK(r) /\ (NoAuthRedirect => Final(r))
    <3>1. status \in Nat /\ (NoAuthRedirect => status = 260 \/ status >= 400)
      <4>1. status \in {260} \cup (300 .. 599)
        BY <2>1
      <4> QED BY <2>1, <4>1
    <3>2. BodyOf(status, body).status_code \in ErrorCodes
      BY BodiesOf
    <3> QED BY <2>1, <3>1, <3>2 DEF TokenResponded
  <2> QED BY <1>2, <2>1 DEF NoGrant
<1> QED BY <1>1, <1>2

\* Without a grant the token endpoint answers without a token, or not at all.
LEMMA NoGrantAnswers ==
  ASSUME NoGrant
  PROVE  /\ issued' = issued
         /\ \E r : TokenAnswered(r) /\ (r.status \in 1 .. 399 => r.body.tokens = {})
PROOF
<1>1. CASE TokenAnswered(NoResponse)
  BY <1>1, Bodies DEF NoGrant, serverVars
<1>2. ASSUME NEW status, NEW body \in TokenErrors, TokenResponded(status, BodyOf(status, body))
      PROVE  \E r : TokenAnswered(r) /\ r.body.tokens = {}
  <2>1. BodyOf(status, body).tokens = {}
    <3>1. body.tokens = {} /\ Text.tokens = {}
      BY ConstantsOK DEF ConstantsOK, Text
    <3> QED BY <3>1, BodiesOf
  <2> QED BY <1>2, <2>1 DEF TokenResponded
<1> QED BY <1>1, <1>2 DEF NoGrant, serverVars

\* oidcAuth picks a candidate that the reply has, its literal spelling first.
LEMMA PickedIsNamed ==
  ASSUME NEW name, NEW body
  PROVE  /\ PropertyPicked(name, body) \in {<<>>, Named(name), camelToSnake(Named(name))}
         /\ Named(name) \in body.tokens => PropertyPicked(name, body) = Named(name)
         /\ body.tokens = {} => PropertyPicked(name, body) = <<>>
PROOF
<1> DEFINE names == tokenPropertyCandidates(name)
           found == {i \in DOMAIN names : names[i] \in body.tokens}
           first == CHOOSE i \in found : \A j \in found : i <= j
<1>1. /\ DOMAIN names \in {1 .. 1, 1 .. 2} /\ names[1] = Named(name)
      /\ \A i \in DOMAIN names : names[i] \in {Named(name), camelToSnake(Named(name))}
  BY DEF tokenPropertyCandidates
<1>2. PropertyPicked(name, body) = IF found = {} THEN <<>> ELSE names[first]
  BY DEF PropertyPicked
<1> HIDE DEF names
<1>3. found # {} => first \in found /\ \A j \in found : first <= j
  <2>1. found # {} => \E i \in found : \A j \in found : i <= j
    BY <1>1
  <2> QED BY <2>1
<1>4. Named(name) \in body.tokens => 1 \in found /\ \A i \in found : 1 <= i
  BY <1>1
<1>5. 1 \in found => first = 1
  BY <1>1, <1>3, <1>4
<1> QED BY <1>1, <1>2, <1>3, <1>4, <1>5

\* The API's answer tells what APIResponse says.
LEMMA APIAnswers ==
  ASSUME API
  PROVE  \E times \in {0, 1} : \E r : Answer(times, r) /\ APIResponse(times, r)
PROOF
<1> USE ConstantsOK, Bodies DEF ConstantsOK, APIResponse, IsError, statusKeyAttributesDifferent
<1>1. CASE NeverArrives
  BY <1>1 DEF NeverArrives
<1>2. CASE Execute
  <2>1. ASSUME NEW form \in {"json", "mistyped"},
               Responded(1, 200, [Object EXCEPT !.form = form, !.result = TRUE])
        PROVE  \E times \in {0, 1} : \E r : Answer(times, r) /\ APIResponse(times, r)
    <3> DEFINE body == [Object EXCEPT !.form = form, !.result = TRUE]
    <3>1. body.status_code = 0 /\ body.result
      BY SuccessBodies
    <3> HIDE DEF body
    <3>2. Responded(1, 200, body)
      BY <2>1 DEF body
    <3> QED BY <3>1, <3>2 DEF Responded
  <2>2. CASE Responded(1, 200, Text)
    BY <2>2 DEF Responded
  <2>3. CASE Answer(1, NoResponse)
    BY <2>3
  <2> QED BY <1>2, <2>1, <2>2, <2>3 DEF Execute
<1>3. ASSUME NEW body \in APIErrors, NEW times \in {0, 1}, AttributesDiffer(times, body)
      PROVE  \E n \in {0, 1} : \E r : Answer(n, r) /\ APIResponse(n, r)
  BY <1>3 DEF AttributesDiffer, Responded
<1>4. ASSUME NEW body \in APIErrors, NEW times \in {0, 1}, NEW status \in Statuses,
             Refuse(times, status, body)
      PROVE  \E n \in {0, 1} : \E r : Answer(n, r) /\ APIResponse(n, r)
  <2>1. status \in 300 .. 599 /\ status # 401
    OBVIOUS
  <2>2. CASE status < 400
    <3>1. BodyOf(status, body) = Text
      BY <2>1, <2>2 DEF BodyOf
    <3> QED BY <1>4, <2>1, <2>2, <3>1 DEF Refuse, Responded
  <2>3. CASE status >= 400
    <3>1. Answer(times, [status |-> status, correlation |-> EchoedId, body |-> body])
      BY <1>4, <2>1, <2>3 DEF Refuse, Responded, BodyOf
    <3> QED BY <2>1, <2>3, <3>1
  <2> QED BY <2>1, <2>2, <2>3
<1>5. ASSUME NEW body \in APIErrors, RejectToken(body)
      PROVE  \E n \in {0, 1} : \E r : Answer(n, r) /\ APIResponse(n, r)
  BY <1>5 DEF RejectToken, Responded
<1> QED BY <1>1, <1>2, <1>3, <1>4, <1>5 DEF API

\* An outcome is of the kind it is made with.
LEMMA PlainKind == \A kind : Plain(kind).kind = kind
PROOF
  BY DEF Plain

\* newAPIError returns an APIError with the status decoded.
LEMMA IsAnAPIError ==
  ASSUME NEW r, NEW fallback
  PROVE  /\ newAPIError(r, fallback).kind = "api"
         /\ newAPIError(r, fallback).StatusCode = DecodedStatus(r)
PROOF
  BY DEF newAPIError, newAPIErrorWithCode, APIErrorOf

\* What requestToken returns after the response.
LEMMA ErrorsOfToken ==
  ASSUME NEW r, ResponseOK(r)
  PROVE  /\ TokenError(r).kind \in {"none", "transport", "api", "decode", "noProperty"}
         /\ TokenError(r).kind = "api" =>
              r.status >= 400 /\ TokenError(r) = newAPIError(r, "errorGettingToken")
         /\ TokenError(r).kind = "none" => r.status < 400
PROOF
<1>0. r.status \in Nat
  BY DEF ResponseOK
<1>1. CASE r.status = 0
  <2>1. TokenError(r) = Plain("transport")
    BY <1>1 DEF TokenError
  <2> QED BY <1>1, <2>1, PlainKind
<1>2. CASE r.status >= 400
  <2>0. r.status # 0 /\ ~(r.status \in 1 .. 399)
    BY <1>0, <1>2
  <2>1. TokenError(r) = newAPIError(r, "errorGettingToken")
    BY <2>0, <1>2 DEF TokenError
  <2>2. TokenError(r).kind = "api"
    BY <2>1, IsAnAPIError
  <2> QED BY <1>0, <1>2, <2>1, <2>2
<1>3. CASE r.status \in 1 .. 399
  <2>1. TokenError(r) \in {Plain("decode"), Plain("noProperty"), Plain("none")}
    BY <1>3 DEF TokenError
  <2> QED BY <1>3, <2>1, PlainKind
<1> QED BY <1>0, <1>1, <1>2, <1>3

\* What do() returns after the last response.
LEMMA OutcomeKinds ==
  /\ Outcome.kind \in {"ok", "transport", "api", "decode"}
  /\ Outcome.kind = "api" => Outcome = newAPIError(response, "") /\ IsError(response.status)
  /\ Outcome.kind = "ok" =>
       /\ response.status # 0 /\ ~IsError(response.status)
       /\ method.result => response.body.form = "json"
PROOF
<1> DEFINE error == newAPIError(response, "")
<1>1. error.kind = "api"
  BY IsAnAPIError
<1> HIDE DEF error
<1>2. \/ Outcome = Plain("transport") \/ Outcome = Plain("decode")
      \/ Outcome = error /\ IsError(response.status)
      \/ /\ Outcome = Plain("ok")
         /\ response.status # 0 /\ ~IsError(response.status)
         /\ method.result => response.body.form = "json"
  BY DEF Outcome, error
<1>3. /\ Outcome.kind \in {"ok", "transport", "api", "decode"}
      /\ Outcome.kind = "api" => Outcome = error /\ IsError(response.status)
      /\ Outcome.kind = "ok" =>
           /\ response.status # 0 /\ ~IsError(response.status)
           /\ method.result => response.body.form = "json"
  <2>1. CASE Outcome = error /\ IsError(response.status)
    BY <1>1, <2>1
  <2>2. CASE Outcome = Plain("transport") \/ Outcome = Plain("decode")
    BY <2>2, PlainKind
  <2>3. CASE Outcome = Plain("ok") /\ response.status # 0 /\ ~IsError(response.status)
             /\ (method.result => response.body.form = "json")
    BY <2>3, PlainKind
  <2> QED BY <1>2, <2>1, <2>2, <2>3
<1> QED BY <1>3 DEF error

\* What selfManagedAuth.Logout returns after the response.
LEMMA LogoutErrors ==
  /\ LogoutError.kind \in {"transport", "api", "loggedOut"}
  /\ LogoutError.kind = "api" => LogoutError = newAPIError(response, "errorLoggingOut")
PROOF
  BY PlainKind, IsAnAPIError DEF LogoutError

\* The logout endpoint answers, and accepts no more tokens than before.
LEMMA LogoutEndpointAnswers ==
  ASSUME LogoutEndpoint
  PROVE  /\ liveAccess' \subseteq liveAccess /\ liveRefresh' \subseteq liveRefresh
         /\ \E r : LogoutResponds(r) /\ ResponseOK(r) /\ (NoAuthRedirect => Final(r))
PROOF
<1> DEFINE noContent == [NoResponse EXCEPT !.status = 204, !.correlation = "generated"]
           refusal(status, body) ==
             [status |-> status, correlation |-> "generated", body |-> BodyOf(status, body)]
<1>1. ResponseOK(noContent) /\ Final(noContent)
  <2>1. noContent.status = 204 /\ noContent.body.status_code = 0
    BY DEF NoResponse, Text
  <2> HIDE DEF noContent
  <2> QED BY <2>1 DEF ResponseOK, ErrorCodes, Final
<1>2. ASSUME NEW status \in AuthStatuses, NEW body \in APIErrors
      PROVE  /\ ResponseOK(refusal(status, body))
             /\ NoAuthRedirect => Final(refusal(status, body))
  <2>1. status \in Nat /\ (NoAuthRedirect => status = 260 \/ status >= 400)
    BY ConstantsOK DEF ConstantsOK, NoAuthRedirect, statusKeyAttributesDifferent
  <2>2. BodyOf(status, body).status_code = 0
    BY ConstantsOK, Bodies, BodiesOf DEF ConstantsOK
  <2> QED BY <2>1, <2>2 DEF ResponseOK, ErrorCodes, Final
<1> HIDE DEF noContent, refusal
<1>3. /\ liveAccess' \subseteq liveAccess /\ liveRefresh' \subseteq liveRefresh
      /\ \/ LogoutResponds(noContent) \/ LogoutResponds(NoResponse)
         \/ \E status \in AuthStatuses, body \in APIErrors : LogoutResponds(refusal(status, body))
  BY DEF LogoutEndpoint, noContent, refusal
<1>4. CASE LogoutResponds(noContent)
  BY <1>1, <1>3, <1>4
<1>5. CASE LogoutResponds(NoResponse)
  BY Bodies, <1>3, <1>5 DEF Final
<1>6. ASSUME NEW status \in AuthStatuses, NEW body \in APIErrors,
             LogoutResponds(refusal(status, body))
      PROVE  \E r : LogoutResponds(r) /\ ResponseOK(r) /\ (NoAuthRedirect => Final(r))
  BY <1>2, <1>6
<1> QED BY <1>3, <1>4, <1>5, <1>6

-----------------------------------------------------------------------------
(* Steps.                                                                  *)

\* Every step is one of the actions below.
LEMMA StepCases ==
  ASSUME [Next]_vars
  PROVE
    \/ \E id \in Correlations : BeginLogout(id) \/ \E m \in CallMethods : Begin(m, id)
    \/ RefuseOperation
    \/ UseCachedToken \/ StartRefresh \/ StartLogin
    \/ \E names \in TokenNames, withRefresh \in BOOLEAN : Grant(names, withRefresh)
    \/ NoGrant
    \/ TokenReceived \/ FallBackToLogin \/ TokenFails
    \/ \E times \in {0, 1} : \E r : Answer(times, r) /\ APIResponse(times, r)
    \/ ReplayOn401 \/ Finish
    \/ LogoutLocally \/ PostLogout \/ LogoutEndpoint \/ LogoutReturns
    \/ Expire \/ Revoke
    \/ UNCHANGED vars
PROOF
  BY APIAnswers DEF Next, GetTokenStep, TokenEndpoint, TokenReplyStep

\* The requests of a call are alike, its replay included.
LEMMA SentStep == SentInv /\ [Next]_vars => SentInv'
PROOF
<1> SUFFICES ASSUME SentInv, [Next]_vars PROVE SentInv'
  OBVIOUS
<1> USE DEF SentInv, contextVars, historyVars
<1>0. TokenRequest.to # "api"
  BY DEF TokenRequest
<1>1. ASSUME NEW id, NEW at, Start(id, at) PROVE SentInv'
  BY <1>1 DEF Start
<1>2. ASSUME UNCHANGED <<method, correlation, sent>> PROVE SentInv'
  BY <1>2 DEF newRequest, APIRequest
<1>3. ASSUME UNCHANGED <<method, correlation>>, sent' \subseteq sent \cup {TokenRequest}
      PROVE  SentInv'
  BY <1>0, <1>3 DEF newRequest, APIRequest
<1>4. ASSUME UNCHANGED <<method, correlation>>, sent' = sent \cup {newRequest}
      PROVE  SentInv'
  BY <1>4 DEF newRequest, APIRequest
<1>5. CASE \E id \in Correlations : BeginLogout(id) \/ \E m \in CallMethods : Begin(m, id)
  BY <1>1, <1>5 DEF BeginLogout, Begin
<1>6. CASE UseCachedToken \/ TokenReceived
  BY <1>4, <1>6 DEF UseCachedToken, TokenReceived, SendWith
<1>7. CASE StartRefresh \/ StartLogin \/ FallBackToLogin \/ PostLogout
  BY <1>3, <1>7 DEF StartRefresh, StartLogin, FallBackToLogin, PostLogout, Post
<1>8. CASE RefuseOperation \/ TokenFails \/ ReplayOn401 \/ Finish \/ LogoutLocally \/ LogoutReturns
  BY <1>2, <1>8 DEF RefuseOperation, TokenFails, ReplayOn401, Replay, Finish,
                    LogoutLocally, LogoutReturns
<1>9. CASE LogoutEndpoint \/ Expire \/ Revoke \/ UNCHANGED vars
  BY <1>2, <1>9 DEF LogoutEndpoint, LogoutResponds, Expire, Revoke, Disrupt, vars
<1>10. ASSUME NEW times, NEW r, Answer(times, r) PROVE SentInv'
  BY <1>2, <1>10 DEF Answer
<1>11. ASSUME NEW r, TokenAnswered(r) PROVE SentInv'
  BY <1>2, <1>11 DEF TokenAnswered
<1> QED BY <1>5, <1>6, <1>7, <1>8, <1>9, <1>10, <1>11, StepCases, TokenEndpointAnswers

\* The initial states satisfy the invariant.
LEMMA InvInit == Init => IInv
PROOF
<1> SUFFICES ASSUME Init PROVE IInv
  OBVIOUS
<1>0. /\ pc = "idle" /\ refreshed.status = 0 /\ response.status = 0 /\ sent = {} /\ executed = 0
      /\ returned.kind = "none" /\ value = FALSE
      /\ ResponseOK(response) /\ ResponseOK(refreshed)
  BY Bodies, PlainKind DEF Init
<1>1. TypeOK
  <2>1. EmptyCache \in TokenCache /\ GetKey \in AllMethods
    BY DEF EmptyCache, TokenCache, Expiry, NoToken, AllMethods
  <2>2. 0 \in 0 .. MaxGrants /\ 0 \in 0 .. MaxDisruptions
    BY ConstantsOK DEF ConstantsOK
  <2>3. returned.kind \in Kinds /\ pc \in Points
    BY <1>0 DEF Kinds, Points
  <2>4. /\ backend \in Backends /\ cache = EmptyCache /\ method = GetKey /\ attempt = 0
        /\ token = 0 /\ issued = 0 /\ disruptions = 0 /\ liveAccess = {} /\ liveRefresh = {}
    BY DEF Init, NoToken
  <2> QED BY <1>0, <2>1, <2>2, <2>3, <2>4 DEF TypeOK
<1>2. ResponseInv /\ SentInv /\ EffectInv
  BY <1>0 DEF ResponseInv, SentInv, EffectInv
<1>3. RefreshInv
  BY <1>0 DEF RefreshInv, Retained
<1>4. OutcomeInv
  BY <1>0 DEF OutcomeInv
<1>5. BearerInv
  BY <1>0 DEF BearerInv, BearerIsTheNamedProperty, Init, EmptyCache, ReplyAnswered
<1> QED BY <1>1, <1>2, <1>3, <1>4, <1>5 DEF IInv

\* Responses come from the other side with the statuses they have there.
LEMMA ResponseStep == ResponseInv /\ [Next]_vars => ResponseInv'
PROOF
<1> SUFFICES ASSUME ResponseInv, [Next]_vars PROVE ResponseInv'
  OBVIOUS
<1> USE Bodies DEF ResponseInv, ResponseOK, historyVars
<1>1. ASSUME NEW id, NEW at, Start(id, at) PROVE ResponseInv'
  BY <1>1 DEF Start
<1>2. ASSUME response' = response, refreshed' \in {refreshed, NoResponse} PROVE ResponseInv'
  BY <1>2
<1>3. ASSUME NEW r, ResponseOK(r), response' = r, refreshed' \in {refreshed, r} PROVE ResponseInv'
  BY <1>3
<1>4. ASSUME NEW times, NEW r, Answer(times, r), APIResponse(times, r) PROVE ResponseInv'
  BY <1>3, <1>4 DEF Answer, APIResponse, ErrorCodes
<1>5. ASSUME NEW r, TokenAnswered(r), ResponseOK(r) PROVE ResponseInv'
  BY <1>3, <1>5 DEF TokenAnswered
<1>6. CASE LogoutEndpoint
  BY <1>3, <1>6, LogoutEndpointAnswers DEF LogoutResponds
<1>7. CASE \E id \in Correlations : BeginLogout(id) \/ \E m \in CallMethods : Begin(m, id)
  BY <1>1, <1>7 DEF BeginLogout, Begin
<1>8. CASE UseCachedToken \/ TokenReceived
  BY <1>2, <1>8 DEF UseCachedToken, TokenReceived
<1>9. CASE StartRefresh \/ StartLogin \/ FallBackToLogin \/ PostLogout
  BY <1>2, <1>9 DEF StartRefresh, StartLogin, FallBackToLogin, PostLogout, Post
<1>10. CASE RefuseOperation \/ TokenFails \/ ReplayOn401 \/ Finish \/ LogoutLocally \/ LogoutReturns
  BY <1>2, <1>10 DEF RefuseOperation, TokenFails, ReplayOn401, Replay, Finish,
                    LogoutLocally, LogoutReturns
<1>11. CASE Expire \/ Revoke \/ UNCHANGED vars
  BY <1>2, <1>11 DEF Expire, Revoke, Disrupt, vars
<1> QED BY <1>4, <1>5, <1>6, <1>7, <1>8, <1>9, <1>10, <1>11, StepCases, TokenEndpointAnswers

\* Effects happen once, and only while the response of the API is awaited.
LEMMA EffectStep == EffectInv /\ [Next]_vars => EffectInv'
PROOF
<1> SUFFICES ASSUME EffectInv, [Next]_vars PROVE EffectInv'
  OBVIOUS
<1> USE DEF EffectInv, historyVars
<1>1. ASSUME NEW id, NEW at, Start(id, at), at # "answered" PROVE EffectInv'
  BY <1>1 DEF Start
<1>2. ASSUME executed' = executed, executed = 0, pc' # "answered" PROVE EffectInv'
  BY <1>2
<1>3. ASSUME executed' = executed, pc' = "idle" PROVE EffectInv'
  BY <1>3
<1>4. ASSUME NEW times \in {0, 1}, NEW r, Answer(times, r), APIResponse(times, r) PROVE EffectInv'
  <2>1. /\ pc' = "answered" /\ executed' = times /\ response' = r
    BY <1>4 DEF Answer
  <2>2. APIResponse(executed, response)'
    BY <1>4, <2>1 DEF APIResponse
  <2> QED BY <2>1, <2>2
<1>5. ASSUME NEW r, TokenAnswered(r), pc \in AtTokenEndpoint PROVE EffectInv'
  BY <1>2, <1>5 DEF TokenAnswered, AtTokenEndpoint
<1>6. CASE LogoutEndpoint
  BY <1>2, <1>6, LogoutEndpointAnswers DEF LogoutResponds
<1>7. CASE \E id \in Correlations : BeginLogout(id) \/ \E m \in CallMethods : Begin(m, id)
  BY <1>1, <1>7 DEF BeginLogout, Begin
<1>8. CASE UseCachedToken \/ TokenReceived
  BY <1>2, <1>8 DEF UseCachedToken, TokenReceived, SendWith
<1>9. CASE StartRefresh \/ StartLogin \/ FallBackToLogin \/ PostLogout
  BY <1>2, <1>9 DEF StartRefresh, StartLogin, FallBackToLogin, PostLogout, Post
<1>10. CASE RefuseOperation \/ TokenFails \/ Finish \/ LogoutLocally \/ LogoutReturns
  BY <1>3, <1>10 DEF RefuseOperation, TokenFails, Finish, LogoutLocally, LogoutReturns, Return
<1>11. CASE ReplayOn401
  BY <1>2, <1>11 DEF ReplayOn401, Replay, APIResponse
<1>12. CASE Expire \/ Revoke \/ UNCHANGED vars
  <2>1. UNCHANGED <<pc, executed, response>>
    BY <1>12 DEF Expire, Revoke, Disrupt, vars
  <2> QED BY <2>1 DEF APIResponse
<1> QED BY <1>4, <1>5, <1>6, <1>7, <1>8, <1>9, <1>10, <1>11, <1>12, StepCases, TokenEndpointAnswers

\* A refresh after which GetToken goes on to the login was rejected, if no
\* body has a status_code that says so instead of the status.
LEMMA Rejection ==
  ASSUME NoOverride, NEW r, ResponseOK(r), RejectsRefresh(TokenError(r))
  PROVE  Rejected(r)
PROOF
<1>1. r.status >= 400 /\ TokenError(r) = newAPIError(r, "errorGettingToken")
  BY ErrorsOfToken DEF RejectsRefresh
<1>2. DecodedStatus(r) < 500
  BY <1>1, IsAnAPIError DEF RejectsRefresh
<1>3. r.body.status_code \in {0} \cup (500 .. 599)
  <2>1. \A b \in TokenErrors : b.status_code \in {0} \cup (400 .. 599)
    BY ConstantsOK DEF ConstantsOK
  <2>2. PICK code \in ErrorCodes : r.body.status_code = code
    BY DEF ResponseOK
  <2>3. code \in {0} \cup (500 .. 599)
    <3>1. CASE code = 0
      BY <3>1
    <3>2. CASE code # 0
      <4>1. PICK b \in TokenErrors : code = b.status_code
        BY <3>2 DEF ErrorCodes
      <4>2. code \in {0} \cup (400 .. 599) /\ code \notin 400 .. 499
        BY <2>1, <4>1 DEF NoOverride
      <4> QED BY <3>2, <4>2
    <3> QED BY <3>1, <3>2
  <2> QED BY <2>2, <2>3
<1> QED BY <1>1, <1>2, <1>3 DEF DecodedStatus, Rejected, ResponseOK

\* Only a rejection costs the refresh token or leads to a login.
LEMMA RefreshStep == TypeOK /\ ResponseInv /\ RefreshInv /\ [Next]_vars => RefreshInv'
PROOF
<1> SUFFICES ASSUME TypeOK, ResponseInv, RefreshInv, [Next]_vars PROVE RefreshInv'
  OBVIOUS
<1> USE DEF RefreshInv, historyVars
<1>n. NoResponse.status = 0 /\ ~Retained(NoResponse)
  BY Bodies DEF Retained
<1>1. ASSUME NEW id, NEW at \in {"getToken", "unsupported", "logout"}, Start(id, at)
      PROVE  RefreshInv'
  BY <1>1, <1>n DEF Start, Retained, Rejected
<1>2. ASSUME refreshed' = refreshed, NoOverride => ~Retained(refreshed),
             pc' \notin {"refresh", "refreshAnswered", "login", "loginAnswered"}
      PROVE  RefreshInv'
  BY <1>2 DEF Retained, Rejected
<1>3. ASSUME refreshed' = refreshed, pc \notin {"refreshAnswered", "idle"},
             pc' \notin {"refresh", "refreshAnswered", "login", "loginAnswered"}
      PROVE  RefreshInv'
  BY <1>2, <1>3
<1>4. ASSUME NEW r, TokenAnswered(r), pc \in AtTokenEndpoint PROVE RefreshInv'
  <2>1. CASE pc = "refresh"
    BY <1>4, <2>1 DEF TokenAnswered, sourceVars, AtTokenEndpoint
  <2>2. CASE pc = "login"
    <3>1. pc' = "loginAnswered" /\ refreshed' = refreshed
      BY <1>4, <2>2 DEF TokenAnswered
    <3> QED BY <2>2, <3>1 DEF Retained, Rejected
  <2> QED BY <1>4, <2>1, <2>2 DEF AtTokenEndpoint
<1>5. CASE \E id \in Correlations : BeginLogout(id) \/ \E m \in CallMethods : Begin(m, id)
  BY <1>1, <1>5 DEF BeginLogout, Begin
<1>6. CASE StartRefresh
  <2>1. pc' = "refresh" /\ refreshed' = NoResponse /\ cache' = cache /\ cache.refresh # NoToken
    BY <1>6 DEF StartRefresh, Post, RefreshUsable, SelfRefreshUsable, OAuth2RefreshUsable,
                OIDCRefreshUsable
  <2> QED BY <1>n, <2>1 DEF Retained, Rejected
<1>7. CASE StartLogin
  <2>1. pc' = "login" /\ refreshed' = NoResponse
    BY <1>7 DEF StartLogin, Post
  <2> QED BY <1>n, <2>1 DEF Retained, Rejected
<1>8. CASE TokenReceived
  <2>1. pc' = "sent" /\ refreshed' = refreshed /\ pc \in ReplyAnswered
    BY <1>8 DEF TokenReceived, SendWith, ReplyAnswered
  <2>2. CASE pc = "refreshAnswered"
    <3>1. refreshed.status < 400 /\ refreshed.status \in Nat
      BY <1>8, <2>2, ErrorsOfToken DEF TokenReceived, ResponseInv, ResponseOK
    <3> QED BY <1>2, <2>1, <3>1 DEF Retained
  <2> QED BY <1>3, <2>1, <2>2 DEF ReplyAnswered
<1>9. CASE FallBackToLogin
  <2>1. /\ pc = "refreshAnswered" /\ pc' = "login" /\ refreshed' = refreshed
        /\ NoOverride => Rejected(refreshed)
    BY <1>9, Rejection DEF FallBackToLogin, Post, ResponseInv
  <2> QED BY <2>1 DEF Retained, Rejected
<1>10. CASE TokenFails
  <2>1. pc \in ReplyAnswered /\ pc' = "idle" /\ refreshed' = refreshed /\ cache' = cache
    BY <1>10 DEF TokenFails, Return, sourceVars, ReplyAnswered
  <2> QED BY <2>1 DEF Retained, Rejected, ReplyAnswered
<1>11. CASE UseCachedToken \/ RefuseOperation \/ Finish \/ ReplayOn401
  BY <1>3, <1>11 DEF UseCachedToken, SendWith, RefuseOperation, Finish, ReplayOn401, Replay, Return
<1>12. CASE LogoutLocally \/ PostLogout \/ LogoutReturns
  BY <1>3, <1>12 DEF LogoutLocally, PostLogout, Post, LogoutReturns, Return
<1>13. CASE LogoutEndpoint
  BY <1>3, <1>13, LogoutEndpointAnswers DEF LogoutResponds
<1>14. ASSUME NEW times, NEW r, Answer(times, r) PROVE RefreshInv'
  BY <1>3, <1>14 DEF Answer
<1>15. CASE Expire \/ Revoke \/ UNCHANGED vars
  <2>1. UNCHANGED <<pc, refreshed, response>> /\ cache'.refresh = cache.refresh
    BY <1>15 DEF Expire, Revoke, Disrupt, vars, sourceVars, TypeOK, TokenCache
  <2> QED BY <2>1 DEF Retained, Rejected
<1> QED BY <1>4, <1>5, <1>6, <1>7, <1>8, <1>9, <1>10, <1>11, <1>12, <1>13, <1>14, <1>15,
           StepCases, TokenEndpointAnswers

\* What is returned is what the last response says.
LEMMA OutcomeStep == ResponseInv /\ EffectInv /\ OutcomeInv /\ [Next]_vars => OutcomeInv'
PROOF
<1> SUFFICES ASSUME ResponseInv, EffectInv, OutcomeInv, [Next]_vars PROVE OutcomeInv'
  OBVIOUS
<1> USE DEF OutcomeInv, historyVars, contextVars, outcomeVars
<1>1. ASSUME pc' # "idle" PROVE OutcomeInv'
  BY <1>1
<1>2. ASSUME NEW e, Return(e, FALSE), e.kind \notin {"ok", "api"} PROVE OutcomeInv'
  BY <1>2 DEF Return
<1>3. ASSUME NEW fallback \in {"", "errorGettingToken", "errorLoggingOut"},
             Return(newAPIError(response, fallback), FALSE), response' = response
      PROVE  OutcomeInv'
  <2>1. /\ returned' = newAPIError(response', fallback) /\ returned'.kind = "api" /\ value' = FALSE
    BY <1>3, IsAnAPIError DEF Return
  <2> QED BY <2>1
<1>4. CASE \E id \in Correlations : BeginLogout(id) \/ \E m \in CallMethods : Begin(m, id)
  BY <1>1, <1>4 DEF BeginLogout, Begin, Start
<1>5. CASE UseCachedToken \/ TokenReceived \/ StartRefresh \/ StartLogin \/ FallBackToLogin
           \/ PostLogout \/ ReplayOn401
  BY <1>1, <1>5 DEF UseCachedToken, TokenReceived, SendWith, StartRefresh, StartLogin,
                    FallBackToLogin, PostLogout, Post, ReplayOn401, Replay
<1>6. CASE LogoutEndpoint
  BY <1>1, <1>6, LogoutEndpointAnswers DEF LogoutResponds
<1>7. ASSUME NEW times, NEW r, Answer(times, r) PROVE OutcomeInv'
  BY <1>1, <1>7 DEF Answer
<1>8. ASSUME NEW r, TokenAnswered(r) PROVE OutcomeInv'
  BY <1>1, <1>8 DEF TokenAnswered
<1>9. CASE RefuseOperation
  <2>1. Return(Plain("unsupported"), FALSE)
    BY <1>9 DEF RefuseOperation
  <2>2. Plain("unsupported").kind = "unsupported"
    BY PlainKind
  <2>3. Plain("unsupported").kind \notin {"ok", "api"}
    BY <2>2
  <2> QED BY <1>2, <2>1, <2>3
<1>10. CASE TokenFails
  <2>1. Return(TokenError(response), FALSE) /\ response' = response
    BY <1>10 DEF TokenFails
  <2>2. CASE TokenError(response).kind = "api"
    BY <1>3, <2>1, <2>2, ErrorsOfToken DEF ResponseInv
  <2>3. CASE TokenError(response).kind # "api"
    BY <1>2, <2>1, <2>3, ErrorsOfToken DEF ResponseInv
  <2> QED BY <2>2, <2>3
<1>11. CASE Finish
  <2>1. /\ response' = response /\ method' = method /\ pc = "answered"
        /\ returned' = Outcome
        /\ value' = (Outcome.kind = "ok" /\ method.result /\ response.body.result)
    BY <1>11 DEF Finish, Return
  <2>2. Outcome.kind = "ok" /\ method.result => response.body.result
    BY <2>1, OutcomeKinds, Bodies DEF EffectInv, APIResponse
  <2>3. value' <=> returned'.kind = "ok" /\ method'.result
    BY <2>1, <2>2
  <2>4. returned'.kind = "api" => returned' = newAPIError(response', "")
    BY <2>1, OutcomeKinds
  <2> QED BY <2>3, <2>4
<1>12. CASE LogoutLocally
  <2>1. Return(Plain("loggedOut"), FALSE)
    BY <1>12 DEF LogoutLocally
  <2>2. Plain("loggedOut").kind = "loggedOut"
    BY PlainKind
  <2>3. Plain("loggedOut").kind \notin {"ok", "api"}
    BY <2>2
  <2> QED BY <1>2, <2>1, <2>3
<1>13. CASE LogoutReturns
  <2>1. Return(LogoutError, FALSE) /\ response' = response
    BY <1>13 DEF LogoutReturns
  <2>2. CASE LogoutError.kind = "api"
    BY <1>3, <2>1, <2>2, LogoutErrors
  <2>3. CASE LogoutError.kind # "api"
    BY <1>2, <2>1, <2>3, LogoutErrors
  <2> QED BY <2>2, <2>3
<1>14. CASE Expire \/ Revoke \/ UNCHANGED vars
  <2>1. UNCHANGED <<pc, value, returned, method, response>>
    BY <1>14 DEF Expire, Revoke, Disrupt, vars
  <2> QED BY <2>1
<1> QED BY <1>4, <1>5, <1>6, <1>7, <1>8, <1>9, <1>10, <1>11, <1>12, <1>13, <1>14,
           StepCases, TokenEndpointAnswers

\* Every action, and stuttering, keeps the types of TypeOK.
LEMMA TypeStep == TypeOK /\ ResponseInv /\ EffectInv /\ [Next]_vars => TypeOK'
PROOF
<1> SUFFICES ASSUME TypeOK, ResponseInv, EffectInv, [Next]_vars PROVE TypeOK'
  OBVIOUS
<1> USE DEF TypeOK, historyVars, contextVars, outcomeVars, sourceVars, serverVars
<1>b. /\ backend \in AllBackends /\ NoToken \in Nat /\ 1 .. issued \subseteq 1 .. (issued + 1)
      /\ MaxGrants \in Nat /\ MaxDisruptions \in Nat
  BY ConstantsOK DEF ConstantsOK, NoToken
<1>c. /\ DropAccess(cache) \in TokenCache /\ DropRefresh(cache) \in TokenCache
      /\ DropBoth(cache) \in TokenCache
  BY DropTypes
<1>d. Disrupt => disruptions' \in 0 .. MaxDisruptions
  BY <1>b DEF Disrupt
<1>p. /\ {"getToken", "refresh", "login", "refreshAnswered", "loginAnswered", "sent", "answered",
          "idle", "logout", "logoutPost", "logoutAnswered", "unsupported"} \subseteq Points
      /\ {"ok", "api", "transport", "decode", "noProperty", "unsupported", "loggedOut"} \subseteq Kinds
  BY DEF Points, AtTokenEndpoint, Kinds
<1>1. ASSUME NEW id \in Correlations, BeginLogout(id) PROVE TypeOK'
  <2>1. returned' = Plain("none") /\ Plain("none").kind = "none"
    BY <1>1, PlainKind DEF BeginLogout, Start
  <2>2. /\ UNCHANGED <<backend, cache, method, issued, liveAccess, liveRefresh>>
        /\ pc' = "logout" /\ attempt' = 0 /\ token' = NoToken /\ value' = FALSE
        /\ executed' = 0 /\ disruptions' = disruptions + 1 /\ disruptions < MaxDisruptions
    BY <1>1 DEF BeginLogout, Start
  <2>3. returned'.kind \in Kinds
    BY <2>1 DEF Kinds
  <2>4. pc' \in Points
    BY <2>2, <1>p
  <2>5. disruptions' \in 0 .. MaxDisruptions
    BY <2>2, <1>b
  <2>6. /\ backend' \in Backends /\ cache' \in TokenCache /\ method' \in AllMethods
        /\ issued' \in 0 .. MaxGrants
        /\ liveAccess' \subseteq 1 .. issued' /\ liveRefresh' \subseteq 1 .. issued'
    BY <2>2
  <2>7. attempt' \in {0, 1} /\ token' \in Nat /\ executed' \in Nat /\ value' \in BOOLEAN
    BY <2>2, <1>b
  <2> QED BY <2>3, <2>4, <2>5, <2>6, <2>7
<1>2. ASSUME NEW id \in Correlations, NEW m \in CallMethods, Begin(m, id) PROVE TypeOK'
  <2>1. m \in AllMethods
    BY ConstantsOK DEF ConstantsOK
  <2>2. returned'.kind \in Kinds
    BY <1>2, PlainKind DEF Begin, Start, Kinds
  <2> QED BY <1>2, <1>b, <1>p, <2>1, <2>2 DEF Begin, Start
<1>3. CASE UseCachedToken
  BY <1>3, <1>p DEF UseCachedToken, SendWith, TokenCache
<1>4. CASE StartRefresh \/ StartLogin \/ PostLogout
  BY <1>4, <1>p DEF StartRefresh, StartLogin, PostLogout, Post
<1>5. CASE FallBackToLogin
  BY <1>5, <1>c, <1>p DEF FallBackToLogin, Post
<1>6. ASSUME NEW names, NEW withRefresh, Grant(names, withRefresh) PROVE TypeOK'
  <2>1. \E r : TokenAnswered(r)
    BY <1>6, TokenEndpointAnswers
  <2>2. /\ issued' \in 0 .. MaxGrants
        /\ liveAccess' \subseteq 1 .. issued' /\ liveRefresh' \subseteq 1 .. issued'
    BY <1>6, <1>b DEF Grant
  <2> QED BY <1>p, <2>1, <2>2 DEF TokenAnswered
<1>7. CASE NoGrant
  BY <1>7, <1>p, TokenEndpointAnswers DEF NoGrant, TokenAnswered
<1>8. CASE TokenReceived
  <2>1. Reply(response.body) \in TokenResponse
    BY <1>b DEF Reply, TokenResponse
  <2>2. Store(backend, cache, Reply(response.body)) \in TokenCache
    BY <1>b, <2>1, CacheTypes
  <2>3. Reply(response.body).access \in Nat
    BY <2>1 DEF TokenResponse
  <2> QED BY <1>8, <1>p, <2>2, <2>3 DEF TokenReceived, SendWith
<1>9. ASSUME NEW e, Return(e, FALSE), e.kind \in Kinds, cache' \in TokenCache,
             UNCHANGED <<backend, method, attempt, token, executed, serverVars, disruptions>>
      PROVE  TypeOK'
  BY <1>9, <1>p DEF Return
<1>10. CASE RefuseOperation
  BY <1>9, <1>10, <1>p, PlainKind DEF RefuseOperation
<1>11. CASE TokenFails
  <2>1. TokenError(response).kind \in Kinds
    BY <1>11, <1>p, ErrorsOfToken DEF TokenFails, ResponseInv
  <2> QED BY <1>9, <1>11, <2>1 DEF TokenFails
<1>12. CASE LogoutLocally
  BY <1>9, <1>12, <1>c, <1>p, PlainKind DEF LogoutLocally
<1>13. CASE LogoutReturns
  <2>1. LogoutError.kind \in Kinds
    BY <1>p, LogoutErrors
  <2> QED BY <1>9, <1>13, <1>c, <2>1 DEF LogoutReturns
<1>14. CASE Finish
  <2>1. Outcome.kind \in Kinds
    BY <1>p, OutcomeKinds
  <2>2. value' \in BOOLEAN
    BY <1>14 DEF Finish, Return
  <2> QED BY <1>14, <1>p, <2>1, <2>2 DEF Finish, Return
<1>15. ASSUME NEW times \in {0, 1}, NEW r, Answer(times, r) PROVE TypeOK'
  BY <1>15, <1>p DEF Answer
<1>16. CASE ReplayOn401
  BY <1>16, <1>b, <1>c, <1>p DEF ReplayOn401, Replay
<1>17. CASE LogoutEndpoint
  BY <1>17, <1>p, LogoutEndpointAnswers DEF LogoutResponds
<1>18. CASE Expire
  <2>1. cache' \in TokenCache
    BY <1>18 DEF Expire, TokenCache, Expiry
  <2> QED BY <1>18, <1>d, <2>1 DEF Expire, Disrupt
<1>19. CASE Revoke
  BY <1>19, <1>d DEF Revoke, Disrupt
<1>20. CASE UNCHANGED vars
  BY <1>20 DEF vars
<1> QED BY <1>1, <1>2, <1>3, <1>4, <1>5, <1>6, <1>7, <1>8, <1>10, <1>11, <1>12, <1>13, <1>14,
           <1>15, <1>16, <1>17, <1>18, <1>19, <1>20, StepCases

\* No step leaves the bearer token without the property it was found in.
LEMMA BearerStep == TypeOK /\ ResponseInv /\ BearerInv /\ [Next]_vars => BearerInv'
PROOF
<1> SUFFICES ASSUME TypeOK, ResponseInv, BearerInv, [Next]_vars PROVE BearerInv'
  OBVIOUS
<1> USE DEF BearerInv, historyVars, contextVars, outcomeVars, sourceVars, serverVars
<1> DEFINE NamedPicked == picked \in {Named(property), camelToSnake(Named(property))}
<1>b. backend \in AllBackends /\ cache \in TokenCache /\ issued \in Nat
  BY ConstantsOK DEF ConstantsOK, TypeOK
<1>d. /\ DropAccess(cache).access = NoToken /\ DropBoth(cache).access = NoToken
      /\ DropRefresh(cache).access = cache.access
  BY DEF DropAccess, DropBoth, DropRefresh, TokenCache, TypeOK
<1>1. ASSUME UNCHANGED <<backend, property, picked>>, cache'.access \in {cache.access, NoToken},
             pc' \notin {"getToken", "sent"} \cup ReplyAnswered
      PROVE  BearerInv'
  BY <1>1 DEF BearerIsTheNamedProperty, ReplyAnswered
<1>2. ASSUME NEW id, NEW at \in {"getToken", "unsupported", "logout"}, Start(id, at)
      PROVE  BearerInv'
  BY <1>2, Bodies DEF Start, BearerIsTheNamedProperty, ReplyAnswered
<1>3. CASE \E id \in Correlations : BeginLogout(id) \/ \E m \in CallMethods : Begin(m, id)
  BY <1>2, <1>3 DEF BeginLogout, Begin
<1>4. CASE UseCachedToken
  <2>1. /\ UNCHANGED <<backend, property, picked, cache, response, issued>>
        /\ pc = "getToken" /\ pc' = "sent" /\ token' = cache.access
    BY <1>4 DEF UseCachedToken, SendWith
  <2>2. cache.access # NoToken
    BY <1>4 DEF UseCachedToken, AccessUsable, SelfAccessUsable, OAuth2AccessUsable,
                OIDCAccessUsable
  <2> QED BY <2>1, <2>2 DEF BearerIsTheNamedProperty, ReplyAnswered
<1>5. CASE TokenReceived
  <2> DEFINE new == PropertyOf(response.body)
             reply == Reply(response.body)
  <2>1. /\ UNCHANGED <<backend, property, response, issued>>
        /\ pc \in ReplyAnswered /\ pc' = "sent" /\ picked' = new
        /\ token' = reply.access /\ cache' = Store(backend, cache, reply)
        /\ TokenError(response).kind = "none"
    BY <1>5 DEF TokenReceived, SendWith, ReplyAnswered
  <2>2. reply \in TokenResponse /\ reply.access = IF new = <<>> THEN NoToken ELSE issued
    BY <1>b DEF Reply, TokenResponse, NoToken
  <2>3. cache'.access = reply.access
    <3>1. reply \in TokenResponse /\ cache' = Store(backend, cache, reply)
      BY <2>1, <2>2
    <3> HIDE DEF reply
    <3>2. Store(backend, cache, reply).access = reply.access
      BY <1>b, <3>1, CacheFields
    <3> QED BY <3>1, <3>2
  <2>4. response.status \in 1 .. 399 /\ (backend = Other => new # <<>>)
    <3>1. response.status \in Nat /\ response.status < 400
      BY <2>1, ErrorsOfToken DEF ResponseInv, ResponseOK
    <3>2. response.status = 0 => TokenError(response) = Plain("transport")
      BY DEF TokenError
    <3>3. response.status \in 1 .. 399
      BY <2>1, <3>1, <3>2, PlainKind
    <3>4. ASSUME backend = Other, new = <<>> PROVE FALSE
      <4>1. TokenError(response) \in {Plain("decode"), Plain("noProperty")}
        BY <3>3, <3>4 DEF TokenError
      <4> QED BY <2>1, <4>1, PlainKind
    <3> QED BY <3>3, <3>4
  <2>5. backend = Other => issued # 0
    <3>1. ASSUME backend = Other PROVE response.body.tokens # {}
      <4>1. PropertyPicked(property, response.body) # <<>>
        BY <2>4, <3>1 DEF PropertyOf
      <4>2. response.body.tokens = {} => PropertyPicked(property, response.body) = <<>>
        BY PickedIsNamed
      <4> QED BY <4>1, <4>2
    <3> QED BY <2>1, <2>4, <3>1
  <2>6. ASSUME backend = Other
        PROVE  /\ token' # NoToken
               /\ new \in {Named(property), camelToSnake(Named(property))}
               /\ Named(property) \in response.body.tokens => new = Named(property)
    <3>1. new = PropertyPicked(property, response.body) /\ new # <<>>
      BY <2>4, <2>6 DEF PropertyOf
    <3>2. token' # NoToken
      BY <2>1, <2>2, <2>5, <2>6, <3>1 DEF NoToken
    <3>3. /\ PropertyPicked(property, response.body)
               \in {<<>>, Named(property), camelToSnake(Named(property))}
          /\ Named(property) \in response.body.tokens =>
               PropertyPicked(property, response.body) = Named(property)
      BY PickedIsNamed
    <3> HIDE DEF new
    <3> QED BY <3>1, <3>2, <3>3
  <2> HIDE DEF new, reply
  <2> QED BY <2>1, <2>6 DEF BearerIsTheNamedProperty, ReplyAnswered
<1>6. CASE FallBackToLogin
  BY <1>1, <1>6, <1>d DEF FallBackToLogin, Post, ReplyAnswered
<1>7. CASE StartRefresh \/ StartLogin \/ PostLogout
  BY <1>1, <1>7 DEF StartRefresh, StartLogin, PostLogout, Post, ReplyAnswered
<1>8. CASE RefuseOperation \/ TokenFails \/ Finish
  BY <1>1, <1>8 DEF RefuseOperation, TokenFails, Finish, Return, ReplyAnswered
<1>9. CASE LogoutLocally \/ LogoutReturns
  BY <1>1, <1>9, <1>d DEF LogoutLocally, LogoutReturns, Return, ReplyAnswered
<1>10. CASE LogoutEndpoint
  BY <1>1, <1>10, LogoutEndpointAnswers DEF LogoutResponds, ReplyAnswered
<1>11. ASSUME NEW r, TokenAnswered(r), pc \in AtTokenEndpoint,
              r.status \in 1 .. 399 /\ r.body.tokens # {} => issued' # 0
       PROVE  BearerInv'
  <2>1. UNCHANGED <<backend, property, picked, cache>> /\ pc' \in ReplyAnswered /\ response' = r
    BY <1>11 DEF TokenAnswered, ReplyAnswered
  <2> QED BY <1>11, <2>1 DEF BearerIsTheNamedProperty, ReplyAnswered
<1>12. ASSUME NEW names, NEW withRefresh, Grant(names, withRefresh) PROVE BearerInv'
  <2>1. issued' # 0
    BY <1>12, <1>b DEF Grant
  <2> QED BY <1>11, <1>12, <2>1, TokenEndpointAnswers
<1>13. CASE NoGrant
  BY <1>11, <1>13, NoGrantAnswers DEF NoGrant
<1>14. ASSUME NEW times, NEW r, Answer(times, r) PROVE BearerInv'
  BY <1>1, <1>14 DEF Answer, ReplyAnswered
<1>15. CASE ReplayOn401
  <2>1. /\ UNCHANGED <<backend, property, picked, response>> /\ response.status = 401
        /\ pc' = "getToken" /\ cache'.access = NoToken
    BY <1>15, <1>d DEF ReplayOn401, Replay
  <2> QED BY <2>1 DEF BearerIsTheNamedProperty, ReplyAnswered
<1>16. CASE Expire \/ Revoke \/ UNCHANGED vars
  <2>1. /\ UNCHANGED <<backend, property, picked, pc, token, response, issued>>
        /\ cache'.access = cache.access
    BY <1>16, <1>b DEF Expire, Revoke, Disrupt, vars, TokenCache
  <2> QED BY <2>1 DEF BearerIsTheNamedProperty
<1> QED BY <1>3, <1>4, <1>5, <1>6, <1>7, <1>8, <1>9, <1>10, <1>12, <1>13, <1>14, <1>15, <1>16,
           StepCases

\* IInv is inductive, and an invariant.
LEMMA InvStep == IInv /\ [Next]_vars => IInv'
BY TypeStep, ResponseStep, SentStep, RefreshStep, EffectStep, OutcomeStep, BearerStep DEF IInv

\* IInv holds in every reachable state.
LEMMA Inductive == Spec => []IInv
PROOF
<1>1. Init => IInv
  BY InvInit
<1>2. IInv /\ [Next]_vars => IInv'
  BY InvStep
<1> QED BY <1>1, <1>2, PTL DEF Spec

-----------------------------------------------------------------------------
(* The theorems.                                                           *)

(***************************************************************************)
(* Every variable has its type, whatever the deployment, the methods, the  *)
(* replies and the statuses.                                               *)
(***************************************************************************)
THEOREM TypeCorrect == Spec => []TypeOK
PROOF
<1>1. IInv => TypeOK
  BY DEF IInv
<1> QED BY <1>1, Inductive, PTL

(***************************************************************************)
(* The replay sends what the first attempt sent (client.go:453).           *)
(***************************************************************************)
THEOREM Alike == Spec => []AttemptsAreAlike
PROOF
<1>1. SentInv => AttemptsAreAlike
  <2> SUFFICES ASSUME SentInv, NEW r \in APIRequests, NEW s \in APIRequests
               PROVE  r = s /\ r.name = method.name /\ r.correlation = correlation
    BY DEF AttemptsAreAlike
  <2>1. r = newRequest /\ s = newRequest
    BY DEF SentInv, APIRequests
  <2> QED BY <2>1 DEF newRequest, APIRequest
<1>2. IInv => AttemptsAreAlike
  BY <1>1 DEF IInv
<1> QED BY <1>2, Inductive, PTL

(***************************************************************************)
(* The credentials follow a refresh only when its response was a 4xx, and  *)
(* a 5xx leaves the refresh token (SPEC.md:103), on every deployment whose *)
(* token endpoint sends no error body with a status_code of 400 to 499.    *)
(* With such a body the code goes by status_code (errors.go:99) and the    *)
(* property does not hold.                                                 *)
(***************************************************************************)
THEOREM LoginAfterRejection ==
  ASSUME NoOverride
  PROVE  Spec => []LoginFollowsRejection
PROOF
<1>1. RefreshInv => LoginFollowsRejection
  BY DEF RefreshInv, LoginFollowsRejection, Retained, Rejected
<1>2. IInv => LoginFollowsRejection
  BY <1>1 DEF IInv
<1> QED BY <1>2, Inductive, PTL

(***************************************************************************)
(* A nil error comes with the result of the operation (client.go:433), and *)
(* an error with none.                                                     *)
(***************************************************************************)
THEOREM ResultWithSuccess == Spec => []ResultComesWithSuccess
PROOF
<1>1. OutcomeInv => ResultComesWithSuccess
  BY DEF OutcomeInv, ResultComesWithSuccess
<1>2. IInv => ResultComesWithSuccess
  BY <1>1 DEF IInv
<1> QED BY <1>2, Inductive, PTL

(***************************************************************************)
(* The bearer token of an OIDC deployment is the property that discovery   *)
(* names, its literal spelling first (oidc.go:181), whatever the property, *)
(* the replies and the faults.                                             *)
(***************************************************************************)
THEOREM BearerNamed == Spec => []BearerIsTheNamedProperty
PROOF
<1>1. IInv => BearerIsTheNamedProperty
  BY DEF IInv, BearerInv
<1> QED BY <1>1, Inductive, PTL

-----------------------------------------------------------------------------
(* The code of an APIError.                                                *)

\* The code that newAPIError chooses.
LEMMA CodeChosen ==
  ASSUME NEW r, NEW fallback
  PROVE  newAPIError(r, fallback).Code =
           IF r.status = 260 THEN Or(CodeOf(r), ErrCodeInternalKeyAttributesDiffer) ELSE CodeOf(r)
PROOF
<1>1. \A code : newAPIErrorWithCode(r, fallback, code).Code = code
  BY DEF newAPIErrorWithCode, APIErrorOf
<1> QED BY <1>1 DEF newAPIError, statusKeyAttributesDifferent

(***************************************************************************)
(* The code of an APIError is the one the server sent, else not empty, and *)
(* names the 260 (SPEC.md:196, errors.go:119).                             *)
(***************************************************************************)
THEOREM CodeReliable == Spec => []CodeIsReliable
PROOF
<1>1. OutcomeInv => CodeIsReliable
  <2> SUFFICES ASSUME OutcomeInv, pc = "idle", returned.kind = "api"
               PROVE  /\ response.status \in NamedStatuses \cup {260} => returned.Code # ""
                      /\ response.body.form = "json" /\ response.body.code # "" =>
                           returned.Code = response.body.code
                      /\ response.status = 260
                           /\ (response.body.form # "json" \/ response.body.code = "") =>
                           returned.Code = ErrCodeInternalKeyAttributesDiffer
    BY DEF CodeIsReliable
  <2>1. returned.Code = IF response.status = 260
                          THEN Or(CodeOf(response), ErrCodeInternalKeyAttributesDiffer)
                          ELSE CodeOf(response)
    <3>1. PICK fallback : returned = newAPIError(response, fallback)
      BY DEF OutcomeInv
    <3> QED BY <3>1, CodeChosen
  <2>2. CASE response.body.form = "json" /\ response.body.code # ""
    BY <2>1, <2>2 DEF CodeOf, Or
  <2>3. CASE ~(response.body.form = "json" /\ response.body.code # "")
    <3>1. CodeOf(response) = StatusText(response.status)
      BY <2>3 DEF CodeOf
    <3>2. CASE response.status = 260
      <4>1. 260 \notin NamedStatuses
        BY DEF NamedStatuses
      <4>2. CodeOf(response) = ""
        BY <3>1, <3>2, <4>1 DEF StatusText
      <4>3. returned.Code = ErrCodeInternalKeyAttributesDiffer
        BY <2>1, <3>2, <4>2 DEF Or
      <4> QED BY <2>3, <4>3 DEF ErrCodeInternalKeyAttributesDiffer
    <3>3. CASE response.status # 260
      BY <2>1, <2>3, <3>1, <3>3 DEF StatusText
    <3> QED BY <3>2, <3>3
  <2> QED BY <2>2, <2>3
<1>2. IInv => CodeIsReliable
  BY <1>1 DEF IInv
<1> QED BY <1>2, Inductive, PTL

-----------------------------------------------------------------------------
(* Statuses that are not 2xx.                                              *)

\* Where the server redirects nothing, every response is a success or an
\* error, and a call that has not sent a request has no response.
StatusInv ==
  /\ pc \in {"unsupported", "logout"} => response.status = 0
  /\ pc \in ReplyAnswered \cup {"answered", "logoutAnswered"} => Final(response)
  /\ NonSuccessYieldsAPIError

\* No step hides a status from 400 on.
LEMMA StatusStep ==
  ASSUME NoAuthRedirect, \A s \in Statuses : s >= 400
  PROVE  IInv /\ StatusInv /\ [Next]_vars => StatusInv'
PROOF
<1> SUFFICES ASSUME IInv, StatusInv, [Next]_vars PROVE StatusInv'
  OBVIOUS
<1> USE DEF StatusInv, historyVars, contextVars, outcomeVars, sourceVars, serverVars,
            ReplyAnswered
<1>0. response.status \in Nat
  BY DEF IInv, ResponseInv, ResponseOK
<1>1. ASSUME pc' \notin {"idle", "unsupported", "logout", "answered", "logoutAnswered"}
                        \cup ReplyAnswered
      PROVE  StatusInv'
  BY <1>1 DEF NonSuccessYieldsAPIError
<1>2. ASSUME NEW r, Final(r), response' = r, pc' \in ReplyAnswered \cup {"answered", "logoutAnswered"}
      PROVE  StatusInv'
  BY <1>2 DEF NonSuccessYieldsAPIError, Final
<1>3. ASSUME NEW e, Return(e, value'), response' = response, Final(response),
             response.status >= 400 => e.kind = "api"
      PROVE  StatusInv'
  BY <1>0, <1>3 DEF Return, NonSuccessYieldsAPIError, Final
<1>4. ASSUME NEW id, NEW at \in {"getToken", "unsupported", "logout"}, Start(id, at)
      PROVE  StatusInv'
  BY <1>4, Bodies DEF Start, NonSuccessYieldsAPIError
<1>5. CASE \E id \in Correlations : BeginLogout(id) \/ \E m \in CallMethods : Begin(m, id)
  BY <1>4, <1>5 DEF BeginLogout, Begin
<1>6. CASE UseCachedToken \/ TokenReceived \/ StartRefresh \/ StartLogin \/ FallBackToLogin
           \/ PostLogout \/ ReplayOn401
  BY <1>1, <1>6 DEF UseCachedToken, TokenReceived, SendWith, StartRefresh, StartLogin,
                    FallBackToLogin, PostLogout, Post, ReplayOn401, Replay
<1>7. CASE RefuseOperation \/ LogoutLocally
  <2>1. /\ pc \in {"unsupported", "logout"} /\ response' = response
        /\ \E e : Return(e, value')
    BY <1>7 DEF RefuseOperation, LogoutLocally, Return
  <2> QED BY <1>3, <2>1 DEF Final
<1>8. CASE TokenFails
  <2>1. /\ pc \in ReplyAnswered /\ response' = response /\ Return(TokenError(response), value')
        /\ ResponseOK(response)
    BY <1>8 DEF TokenFails, Return, IInv, ResponseInv
  <2>2. response.status >= 400 => TokenError(response).kind = "api"
    <3>1. ASSUME response.status >= 400 PROVE TokenError(response) = newAPIError(response, "errorGettingToken")
      <4>1. response.status # 0 /\ response.status \notin 1 .. 399
        BY <1>0, <3>1
      <4> QED BY <3>1, <4>1 DEF TokenError
    <3> QED BY <3>1, IsAnAPIError
  <2> QED BY <1>3, <2>1, <2>2
<1>9. CASE Finish
  <2>1. pc = "answered" /\ response' = response /\ Return(Outcome, value')
    BY <1>9 DEF Finish, Return
  <2>2. response.status >= 400 => Outcome.kind = "api"
    <3>1. response.status >= 400 => Outcome = newAPIError(response, "")
      <4>1. response.status >= 400 => response.status # 0
        BY <1>0
      <4> QED BY <4>1 DEF Outcome, IsError
    <3> QED BY <3>1, IsAnAPIError
  <2> QED BY <1>3, <2>1, <2>2
<1>10. CASE LogoutReturns
  <2>1. pc = "logoutAnswered" /\ response' = response /\ Return(LogoutError, value')
    BY <1>10 DEF LogoutReturns, Return
  <2>2. response.status >= 400 => LogoutError.kind = "api"
    <3>1. response.status >= 400 => LogoutError = newAPIError(response, "errorLoggingOut")
      BY <1>0 DEF LogoutError
    <3> QED BY <3>1, IsAnAPIError
  <2> QED BY <1>3, <2>1, <2>2
<1>11. ASSUME NEW times, NEW r, Answer(times, r), APIResponse(times, r) PROVE StatusInv'
  <2>1. Final(r)
    BY <1>11 DEF APIResponse, IsError, statusKeyAttributesDifferent, Final
  <2> QED BY <1>2, <1>11, <2>1 DEF Answer
<1>12. CASE LogoutEndpoint
  BY <1>2, <1>12, LogoutEndpointAnswers DEF LogoutResponds
<1>13. ASSUME NEW r, TokenAnswered(r), Final(r) PROVE StatusInv'
  BY <1>2, <1>13 DEF TokenAnswered
<1>14. CASE Expire \/ Revoke \/ UNCHANGED vars
  <2>1. UNCHANGED <<pc, response, returned>>
    BY <1>14 DEF Expire, Revoke, Disrupt, vars
  <2> QED BY <2>1 DEF NonSuccessYieldsAPIError, Final
<1> QED BY <1>5, <1>6, <1>7, <1>8, <1>9, <1>10, <1>11, <1>12, <1>13, <1>14,
           StepCases, TokenEndpointAnswers

(***************************************************************************)
(* Where the server redirects no request, every response whose status is   *)
(* not 2xx yields an APIError, as SPEC.md:372 says, whichever endpoint it  *)
(* came from.                                                              *)
(***************************************************************************)
THEOREM NonSuccessFails ==
  ASSUME NoAuthRedirect, \A s \in Statuses : s >= 400
  PROVE  Spec => []NonSuccessYieldsAPIError
PROOF
<1>1. Init => StatusInv
  BY Bodies DEF Init, StatusInv, NonSuccessYieldsAPIError, ReplyAnswered
<1>2. IInv /\ StatusInv /\ [Next]_vars => StatusInv'
  BY StatusStep
<1>3. StatusInv => NonSuccessYieldsAPIError
  BY DEF StatusInv
<1> QED BY <1>1, <1>2, <1>3, Inductive, PTL DEF Spec

-----------------------------------------------------------------------------
(* The refinement of OneShotCall.                                          *)

\* What the caller sees of the errors.
LEMMA SeenTells ==
  ASSUME NEW error, error.kind \in Kinds \ {"none"}
  PROVE  /\ Seen(error) \in Call!Done \cup Call!NotDone \cup Call!Unknown
         /\ Seen(error) \in Call!Done => error.kind = "ok"
         /\ Seen(error) \in Call!NotDone =>
              \/ error.kind = "api" /\ error.StatusCode = 401
              \/ error.kind \in {"noProperty", "unsupported", "loggedOut"}
PROOF
<1> USE DEF Call!Done, Call!NotDone, Call!Unknown
<1>1. CASE error.kind = "api" /\ error.StatusCode = 401
  <2>1. Seen(error) = "unauthorized"
    BY <1>1 DEF Seen
  <2> QED BY <1>1, <2>1
<1>2. CASE error.kind = "api" /\ error.StatusCode # 401
  <2>1. Seen(error) = "apiError"
    BY <1>2 DEF Seen
  <2> QED BY <2>1
<1>3. CASE error.kind = "transport"
  <2>1. Seen(error) = "transportError"
    BY <1>3 DEF Seen
  <2> QED BY <2>1
<1>4. CASE error.kind = "decode"
  <2>1. Seen(error) = "decodeError"
    BY <1>4 DEF Seen
  <2> QED BY <2>1
<1>5. CASE error.kind \in {"noProperty", "unsupported"}
  <2>1. Seen(error) = "tokenError"
    BY <1>5 DEF Seen
  <2> QED BY <1>5, <2>1
<1>6. CASE error.kind \in {"ok", "loggedOut"}
  <2>1. Seen(error) = error.kind
    BY <1>6 DEF Seen
  <2> QED BY <1>6, <2>1
<1> QED BY <1>1, <1>2, <1>3, <1>4, <1>5, <1>6 DEF Kinds

\* The initial states of Exchanges are those of OneShotCall.
LEMMA OneShotInit == Init => Call!Init
PROOF
<1> SUFFICES ASSUME Init PROVE Call!Init
  OBVIOUS
<1>1. Seen(returned) = "none"
  <2>1. returned.kind = "none"
    BY PlainKind DEF Init
  <2> QED BY <2>1 DEF Seen
<1> QED BY <1>1 DEF Init, Call!Init

\* Every step opens the call, takes the one effect, ends it with an outcome
\* that its effects allow, or changes nothing a caller can see.
LEMMA OneShotStep ==
  ASSUME \A s \in Statuses : s >= 400
  PROVE  IInv /\ [Next]_vars => [Call!Next]_Call!vars
PROOF
<1> SUFFICES ASSUME IInv, [Next]_vars PROVE [Call!Next]_Call!vars
  OBVIOUS
<1> USE DEF historyVars, outcomeVars
<1> DEFINE Ph  == [g \in {Caller} |-> IF pc = "idle" THEN "idle" ELSE "open"]
           Eff == [g \in {Caller} |-> executed]
           Out == [g \in {Caller} |-> IF pc = "idle" THEN Seen(returned) ELSE "none"]
<1>o. ASSUME pc # "idle", pc' # "idle", executed' = executed PROVE UNCHANGED Call!vars
  BY <1>o DEF Call!vars
<1>f. ASSUME NEW e, Return(e, value'), pc # "idle", executed' = executed,
             e.kind \in Kinds \ {"none"},
             e.kind = "ok" => executed = 1,
             e.kind = "api" /\ e.StatusCode = 401 => executed = 0,
             e.kind \in {"noProperty", "unsupported", "loggedOut"} => executed = 0
      PROVE  Call!Next
  <2>1. /\ Ph[Caller] = "open" /\ Ph' = [Ph EXCEPT ![Caller] = "idle"]
        /\ Out' = [Out EXCEPT ![Caller] = Seen(e)] /\ Eff' = Eff /\ Eff[Caller] = executed
    BY <1>f DEF Return
  <2>2. /\ Seen(e) \in Call!Done \cup Call!NotDone \cup Call!Unknown
        /\ Seen(e) \in Call!Done => executed = 1
        /\ Seen(e) \in Call!NotDone => executed = 0
    BY <1>f, SeenTells
  <2>3. Call!Finish(Caller, Seen(e))
    BY <2>1, <2>2 DEF Call!Finish
  <2> QED BY <2>2, <2>3 DEF Call!Next
<1>z. ASSUME NEW e, Return(e, FALSE), pc \notin {"idle", "answered"}, executed' = executed,
             e.kind \in Kinds \ {"none", "ok"}
      PROVE  Call!Next
  <2>1. executed = 0
    BY <1>z DEF IInv, EffectInv
  <2>2. Return(e, value')
    BY <1>z DEF Return
  <2> QED BY <1>f, <1>z, <2>1, <2>2
<1>1. ASSUME NEW id \in Correlations, NEW at, at # "idle", Start(id, at) PROVE Call!Next
  <2>1. /\ Ph[Caller] = "idle" /\ Ph' = [Ph EXCEPT ![Caller] = "open"]
        /\ Eff' = [Eff EXCEPT ![Caller] = 0] /\ Out' = [Out EXCEPT ![Caller] = "none"]
    BY <1>1 DEF Start
  <2>2. Call!Open(Caller)
    BY <2>1 DEF Call!Open
  <2> QED BY <2>2 DEF Call!Next
<1>2. CASE \E id \in Correlations : BeginLogout(id) \/ \E m \in CallMethods : Begin(m, id)
  BY <1>1, <1>2 DEF BeginLogout, Begin
<1>3. CASE UseCachedToken \/ TokenReceived \/ StartRefresh \/ StartLogin \/ FallBackToLogin
           \/ PostLogout \/ ReplayOn401
  <2>1. pc # "idle" /\ pc' # "idle" /\ executed' = executed
    BY <1>3 DEF UseCachedToken, TokenReceived, SendWith, StartRefresh, StartLogin,
                FallBackToLogin, PostLogout, Post, ReplayOn401, Replay
  <2> QED BY <1>o, <2>1
<1>4. CASE LogoutEndpoint
  <2>1. pc # "idle" /\ pc' # "idle" /\ executed' = executed
    BY <1>4, LogoutEndpointAnswers DEF LogoutResponds
  <2> QED BY <1>o, <2>1
<1>5. ASSUME NEW r, pc \in AtTokenEndpoint, TokenAnswered(r) PROVE UNCHANGED Call!vars
  <2>1. pc # "idle" /\ pc' # "idle" /\ executed' = executed
    BY <1>5 DEF TokenAnswered, AtTokenEndpoint
  <2> QED BY <1>o, <2>1
<1>6. ASSUME NEW times \in {0, 1}, NEW r, Answer(times, r) PROVE [Call!Next]_Call!vars
  <2>1. /\ pc = "sent" /\ pc' = "answered" /\ executed = 0 /\ executed' = executed + times
    BY <1>6 DEF Answer, IInv, EffectInv
  <2>2. CASE times = 0
    BY <1>o, <2>1, <2>2
  <2>3. CASE times = 1
    <3>1. /\ Ph[Caller] = "open" /\ Ph' = Ph /\ Out' = Out /\ Eff[Caller] = 0
          /\ Eff' = [Eff EXCEPT ![Caller] = 1]
      BY <2>1, <2>3
    <3>2. Call!TakeEffect(Caller)
      BY <3>1 DEF Call!TakeEffect
    <3> QED BY <3>2 DEF Call!Next
  <2> QED BY <2>2, <2>3
<1>7. CASE RefuseOperation
  <2>1. Return(Plain("unsupported"), FALSE) /\ pc = "unsupported" /\ executed' = executed
    BY <1>7 DEF RefuseOperation
  <2>2. Plain("unsupported").kind \in Kinds \ {"none", "ok"}
    BY PlainKind DEF Kinds
  <2> QED BY <1>z, <2>1, <2>2
<1>8. CASE TokenFails
  <2>1. /\ Return(TokenError(response), FALSE) /\ TokenError(response).kind # "none"
        /\ pc \notin {"idle", "answered"} /\ executed' = executed
    BY <1>8 DEF TokenFails
  <2>2. TokenError(response).kind \in Kinds \ {"none", "ok"}
    BY <2>1, ErrorsOfToken DEF IInv, ResponseInv, Kinds
  <2> QED BY <1>z, <2>1, <2>2
<1>9. CASE LogoutLocally
  <2>1. Return(Plain("loggedOut"), FALSE) /\ pc = "logout" /\ executed' = executed
    BY <1>9 DEF LogoutLocally
  <2>2. Plain("loggedOut").kind \in Kinds \ {"none", "ok"}
    BY PlainKind DEF Kinds
  <2> QED BY <1>z, <2>1, <2>2
<1>10. CASE LogoutReturns
  <2>1. Return(LogoutError, FALSE) /\ pc = "logoutAnswered" /\ executed' = executed
    BY <1>10 DEF LogoutReturns
  <2>2. LogoutError.kind \in Kinds \ {"none", "ok"}
    BY LogoutErrors DEF Kinds
  <2> QED BY <1>z, <2>1, <2>2
<1>11. CASE Finish
  <2>1. Return(Outcome, value') /\ pc = "answered" /\ executed' = executed
    BY <1>11 DEF Finish, Return
  <2>2. APIResponse(executed, response)
    BY <2>1 DEF IInv, EffectInv
  <2>3. Outcome.kind \in Kinds \ {"none", "noProperty", "unsupported", "loggedOut"}
    BY OutcomeKinds DEF Kinds
  <2>4. Outcome.kind = "ok" => executed = 1
    BY <2>2, OutcomeKinds DEF APIResponse, IsError
  <2>5. Outcome.kind = "api" /\ Outcome.StatusCode = 401 => executed = 0
    <3>1. Outcome.kind = "api" => Outcome.StatusCode = DecodedStatus(response)
      BY OutcomeKinds, IsAnAPIError
    <3>2. DecodedStatus(response) = response.status
      BY <2>2 DEF APIResponse, DecodedStatus
    <3> QED BY <2>2, <3>1, <3>2 DEF APIResponse
  <2> QED BY <1>f, <2>1, <2>3, <2>4, <2>5
<1>12. CASE Expire \/ Revoke \/ UNCHANGED vars
  <2>1. UNCHANGED <<pc, returned, executed>>
    BY <1>12 DEF Expire, Revoke, Disrupt, vars
  <2> QED BY <2>1 DEF Call!vars
<1> QED BY <1>2, <1>3, <1>4, <1>5, <1>6, <1>7, <1>8, <1>9, <1>10, <1>11, <1>12,
           StepCases, TokenEndpointAnswers

(***************************************************************************)
(* Exchanges implements OneShotCall where the server redirects no request: *)
(* the type and the status of the error tell the caller what happened,     *)
(* with every error body and from every endpoint.                          *)
(***************************************************************************)
THEOREM OneShot ==
  ASSUME \A s \in Statuses : s >= 400
  PROVE  Spec => ErrorsAreOneShot
PROOF
<1>1. Init => Call!Init
  BY OneShotInit
<1>2. IInv /\ [Next]_vars => [Call!Next]_Call!vars
  BY OneShotStep
<1> QED BY <1>1, <1>2, Inductive, PTL DEF Spec, ErrorsAreOneShot, Call!Spec
=============================================================================
