-------------------------- MODULE KmsClientProofs --------------------------
(***************************************************************************)
(* Proofs, for every set of callers, every choice of backends, operations, *)
(* faults and reply shapes, and every bound, of the safety properties of   *)
(* KmsClient.                                                              *)
(***************************************************************************)
EXTENDS KmsClient, TokenSourcesProofs, TLAPS

-----------------------------------------------------------------------------
(* Types.                                                                  *)

\* The initial states have the types of TypeOK.
LEMMA TypeInit == Init => TypeOK
PROOF
<1> SUFFICES ASSUME Init PROVE TypeOK
  OBVIOUS
<1> USE ConstantsOK DEF ConstantsOK, Init
<1>1. EmptyCache \in TokenCache /\ NoReply \in TokenResponse
  BY DEF EmptyCache, TokenCache, NoReply, TokenResponse, Expiry, NoToken
<1>2. /\ backend \in Backends /\ mu \in Callers \cup {Nobody} /\ loggedOut \in BOOLEAN
      /\ cache \in TokenCache /\ reply \in [Callers -> TokenResponse]
  BY <1>1
<1>3. /\ pc \in [Callers -> Points] /\ attempt \in [Callers -> {0, 1}]
      /\ token \in [Callers -> Nat] /\ result \in [Callers -> Results]
      /\ cancelled \in [Callers -> BOOLEAN] /\ rejected \in [Callers -> Nat]
      /\ executed \in [Callers -> Nat]
  BY DEF Points, Results, NoToken
<1>4. /\ issued \in 0 .. MaxGrants /\ disruptions \in 0 .. MaxDisruptions
      /\ liveAccess \subseteq Nat /\ liveRefresh \subseteq Nat
  OBVIOUS
<1> QED BY <1>2, <1>3, <1>4 DEF TypeOK

\* Every action, and stuttering, keeps the types of TypeOK.
LEMMA TypeStep == TypeOK /\ [Next]_vars => TypeOK'
PROOF
<1> SUFFICES ASSUME TypeOK, [Next]_vars PROVE TypeOK'
  OBVIOUS
<1> USE ConstantsOK DEF ConstantsOK, TypeOK
<1>r. NoReply \in TokenResponse
  BY DEF NoReply, TokenResponse, NoToken
<1>c. /\ DropAccess(cache) \in TokenCache
      /\ DropRefresh(cache) \in TokenCache
      /\ DropBoth(cache) \in TokenCache
  BY DropTypes
<1>s. ASSUME NEW g \in Callers PROVE Store(backend, cache, reply[g]) \in TokenCache
  BY CacheTypes
<1>f. ASSUME NEW k, Fault(k) PROVE disruptions' \in 0 .. MaxDisruptions
  BY <1>f DEF Fault
<1>x. ASSUME NEW g \in Callers, ExchangeFails(g) PROVE disruptions' \in 0 .. MaxDisruptions
  BY <1>f, <1>x DEF ExchangeFails
<1> USE DEF callVars, sourceVars, serverVars, Points, Holding, Results
<1>1. ASSUME NEW g \in Callers, Begin(g) PROVE TypeOK'
  <2>1. ASSUME NEW at \in {"getToken", "logout"}, Start(g, at),
               disruptions' \in 0 .. MaxDisruptions
        PROVE  TypeOK'
    BY <2>1 DEF Start, NoToken
  <2>2. CASE BeginCall(g)
    BY <2>1, <2>2 DEF BeginCall
  <2>3. CASE BeginLogout(g)
    BY <2>1, <2>3 DEF BeginLogout
  <2> QED BY <1>1, <2>2, <2>3 DEF Begin
<1>2. ASSUME NEW g \in Callers, Cancel(g) PROVE TypeOK'
  BY <1>2, <1>f DEF Cancel
<1>3. ASSUME NEW g \in Callers, GetTokenStep(g) PROVE TypeOK'
  <2>1. CASE UseCachedToken(g)
    BY <2>1 DEF UseCachedToken, SendWith, TokenCache
  <2>2. CASE StartRefresh(g)
    BY <2>2 DEF StartRefresh, PostLocked
  <2>3. CASE StartLogin(g)
    BY <2>3 DEF StartLogin, PostLocked
  <2> QED BY <1>3, <2>1, <2>2, <2>3 DEF GetTokenStep
<1>4. ASSUME NEW g \in Callers, TokenReplyStep(g) PROVE TypeOK'
  <2>1. ASSUME NEW s \in Shapes, Grant(g, s) PROVE TypeOK'
    <3>1. NextReply(s) \in TokenResponse
      BY DEF NextReply, TokenResponse, Shape, NoToken
    <3>2. issued + 1 \in Nat
      OBVIOUS
    <3> QED BY <2>1, <3>1, <3>2 DEF Grant
  <2>2. CASE GrantReceived(g)
    <3>1. reply[g].access \in Nat
      BY DEF TokenResponse
    <3> QED BY <2>2, <3>1, <1>r, <1>s DEF GrantReceived, SendWith
  <2>3. ASSUME TokenRequestFailed(g), disruptions' \in 0 .. MaxDisruptions PROVE TypeOK'
    BY <2>3, <1>r DEF TokenRequestFailed
  <2>4. CASE RefreshRejected(g)
    <3>1. disruptions' \in 0 .. MaxDisruptions
      BY <2>4, <1>f DEF RefreshRejected, RefreshIsRejected
    <3> QED BY <2>4, <3>1, <1>c DEF RefreshRejected
  <2>5. CASE GrantWasted(g) \/ GrantRefused(g)
    <3>1. disruptions' \in 0 .. MaxDisruptions
      BY <2>5, <1>f, <1>x DEF GrantWasted, GrantRefused
    <3> QED BY <2>3, <2>5, <3>1 DEF GrantWasted, GrantRefused
  <2> QED BY <1>4, <2>1, <2>2, <2>4, <2>5 DEF TokenReplyStep
<1>5. ASSUME NEW g \in Callers, ServerStep(g) PROVE TypeOK'
  <2>1. disruptions' \in 0 .. MaxDisruptions
    BY <1>5, <1>f, <1>x DEF ServerStep, Execute, RejectToken, Refuse
  <2>2. ASSUME NEW n \in {0, 1}, NEW r \in Results, Answer(g, n, r) PROVE TypeOK'
    BY <2>1, <2>2 DEF Answer
  <2> QED BY <1>5, <2>2 DEF ServerStep, Execute, RejectToken, Refuse
<1>6. ASSUME NEW g \in Callers, ReplayOn401(g) PROVE TypeOK'
  BY <1>6, <1>c DEF ReplayOn401, Replay, NoToken
<1>7. ASSUME NEW g \in Callers, Return(g) PROVE TypeOK'
  BY <1>7 DEF Return, Finish
<1>8. ASSUME NEW g \in Callers, LogoutStep(g) PROVE TypeOK'
  BY <1>8, <1>c DEF LogoutStep, LogoutLocally, LogoutNothing, PostLogout, PostLocked, LogoutEnds
<1>9. ASSUME NEW g \in Callers, LogoutReplyStep(g) PROVE TypeOK'
  <2>1. disruptions' \in 0 .. MaxDisruptions
    BY <1>9, <1>f, <1>x DEF LogoutReplyStep, LogoutAccepted, LogoutLeaving, LogoutFailed
  <2> QED BY <1>9, <2>1, <1>c
          DEF LogoutReplyStep, LogoutAccepted, LogoutLeaving, LogoutFailed, LogoutEnds, Deactivate
<1>10. CASE Environment
  <2>1. CASE AccessExpires \/ RefreshExpires
    BY <2>1, <1>f DEF AccessExpires, RefreshExpires, Disrupt, TokenCache, Expiry
  <2>2. ASSUME NEW t \in liveAccess, RevokeAccess(t) PROVE TypeOK'
    BY <2>2, <1>f DEF RevokeAccess, Disrupt
  <2>3. ASSUME NEW t \in liveRefresh, RevokeRefresh(t) PROVE TypeOK'
    BY <2>3, <1>f DEF RevokeRefresh, Disrupt
  <2> QED BY <1>10, <2>1, <2>2, <2>3 DEF Environment
<1>11. CASE UNCHANGED vars
  BY <1>11 DEF vars
<1> QED BY <1>1, <1>2, <1>3, <1>4, <1>5, <1>6, <1>7, <1>8, <1>9, <1>10, <1>11 DEF Next

\* Every variable keeps its type, whatever the constants.
THEOREM TypeCorrect == Spec => []TypeOK
PROOF
  BY TypeInit, TypeStep, PTL DEF Spec

-----------------------------------------------------------------------------
(* The inductive invariant, in named parts.                                *)

\* A goroutine holds the mutex exactly while its token request is out.
LockInv == \A g \in Callers : pc[g] \in Holding <=> mu = g

\* Every token in the client or live at the server has been issued, and the
\* reply on its way, if any, carries the newest grant.
IssuedInv ==
  /\ cache.access <= issued /\ cache.refresh <= issued
  /\ liveAccess \subseteq 1 .. issued
  /\ \A g \in Callers :
       /\ token[g] <= issued /\ rejected[g] <= issued
       /\ pc[g] = "granted" =>
            reply[g].access \in {NoToken, issued} /\ reply[g].refresh \in {NoToken, issued}

Newer(t, g) == t = NoToken \/ t > rejected[g]

\* From the replay on, the rejected token and the older ones are nowhere to be
\* found: not in the cache, not in a reply on its way, not in the request.
FreshInv ==
  \A g \in Callers :
    attempt[g] = 1 =>
      /\ Newer(cache.access, g)
      /\ Newer(token[g], g)
      /\ \A h \in Callers : pc[h] = "granted" => Newer(reply[h].access, g)

\* A rejected token stays dead.
RejectedInv ==
  \A g \in Callers :
    /\ attempt[g] = 1 => rejected[g] \notin liveAccess
    /\ result[g] = "unauthorized" => token[g] \notin liveAccess
    /\ result[g] = "unauthorized" /\ pc[g] = "idle" => attempt[g] = 1

Responses == {"ok", "unauthorized", "apiError", "transportError", "decodeError"}

\* What the result under way says of the effects of the operation.
EffectInv ==
  \A g \in Callers :
    /\ pc[g] \notin {"answered", "idle"} => result[g] = "none" /\ executed[g] = 0
    /\ pc[g] = "answered" => result[g] \in Responses
    /\ result[g] \in Call!Done => executed[g] = 1
    /\ result[g] \in Call!NotDone => executed[g] = 0
    /\ executed[g] \in {0, 1}

\* A logged-out SELF_MANAGED client has no refresh token, and none on its way.
LogoutInv ==
  (backend = SelfManaged /\ loggedOut) =>
    /\ cache.refresh = NoToken
    /\ \A g \in Callers : pc[g] \notin {"refresh", "granted"}

IInv ==
  /\ TypeOK /\ LockInv /\ IssuedInv /\ FreshInv
  /\ RejectedInv /\ EffectInv /\ LogoutInv

\* Every step is one of the actions below.
LEMMA StepCases ==
  ASSUME TypeOK, [Next]_vars
  PROVE
    \/ \E g \in Callers :
         \/ Begin(g) \/ Cancel(g)
         \/ UseCachedToken(g) \/ StartRefresh(g) \/ StartLogin(g)
         \/ \E s \in Shapes : Grant(g, s)
         \/ GrantReceived(g)
         \/ TokenRequestFailed(g) /\ pc[g] \in {"refresh", "login", "granted"}
         \/ RefreshRejected(g)
         \/ ServerStep(g) \/ ReplayOn401(g) \/ Return(g)
         \/ LogoutLocally(g) \/ LogoutNothing(g) \/ PostLogout(g)
         \/ LogoutAccepted(g) \/ LogoutFailed(g)
    \/ AccessExpires \/ RefreshExpires
    \/ \E t \in Nat : RevokeAccess(t) \/ RevokeRefresh(t)
    \/ UNCHANGED vars
PROOF
<1>1. CASE Environment
  BY <1>1 DEF Environment, TypeOK
<1>2. ASSUME NEW g \in Callers, TokenReplyStep(g)
      PROVE  \/ \E s \in Shapes : Grant(g, s)
             \/ GrantReceived(g)
             \/ TokenRequestFailed(g) /\ pc[g] \in {"refresh", "login", "granted"}
             \/ RefreshRejected(g)
  BY <1>2 DEF TokenReplyStep, GrantWasted, GrantRefused
<1> QED
  BY <1>1, <1>2 DEF Next, GetTokenStep, LogoutStep, LogoutReplyStep

\* The mutex stays with the goroutine whose token request is out.
LEMMA LockStep == TypeOK /\ LockInv /\ [Next]_vars => LockInv'
PROOF
<1> SUFFICES ASSUME TypeOK, LockInv, [Next]_vars PROVE LockInv'
  OBVIOUS
<1> USE ConstantsOK DEF ConstantsOK, TypeOK, LockInv, Holding, callVars, sourceVars, serverVars
<1>1. ASSUME NEW g \in Callers, Begin(g) PROVE LockInv'
  BY <1>1 DEF Begin, BeginCall, BeginLogout, Start
<1>2. ASSUME NEW g \in Callers, Cancel(g) PROVE LockInv'
  BY <1>2 DEF Cancel
<1>3. ASSUME NEW g \in Callers, UseCachedToken(g) PROVE LockInv'
  BY <1>3 DEF UseCachedToken, SendWith
<1>4. ASSUME NEW g \in Callers, StartRefresh(g) PROVE LockInv'
  BY <1>4 DEF StartRefresh, PostLocked
<1>5. ASSUME NEW g \in Callers, StartLogin(g) PROVE LockInv'
  BY <1>5 DEF StartLogin, PostLocked
<1>6. ASSUME NEW g \in Callers, NEW s \in Shapes, Grant(g, s)
     PROVE  LockInv'
  BY <1>6 DEF Grant, NextReply
<1>7. ASSUME NEW g \in Callers, GrantReceived(g) PROVE LockInv'
  BY <1>7 DEF GrantReceived, SendWith
<1>8. ASSUME NEW g \in Callers, TokenRequestFailed(g), pc[g] \in {"refresh", "login", "granted"}
     PROVE  LockInv'
  BY <1>8 DEF TokenRequestFailed
<1>9. ASSUME NEW g \in Callers, RefreshRejected(g) PROVE LockInv'
  BY <1>9 DEF RefreshRejected, RefreshIsRejected
<1>10. ASSUME NEW g \in Callers, ServerStep(g) PROVE LockInv'
  BY <1>10 DEF ServerStep, Execute, RejectToken, Refuse, Answer
<1>11. ASSUME NEW g \in Callers, ReplayOn401(g) PROVE LockInv'
  BY <1>11 DEF ReplayOn401, Replay
<1>12. ASSUME NEW g \in Callers, Return(g) PROVE LockInv'
  BY <1>12 DEF Return, Finish
<1>13. ASSUME NEW g \in Callers, LogoutLocally(g) PROVE LockInv'
  BY <1>13 DEF LogoutLocally, LogoutEnds
<1>14. ASSUME NEW g \in Callers, LogoutNothing(g) PROVE LockInv'
  BY <1>14 DEF LogoutNothing, LogoutEnds
<1>15. ASSUME NEW g \in Callers, PostLogout(g) PROVE LockInv'
  BY <1>15 DEF PostLogout, PostLocked
<1>16. ASSUME NEW g \in Callers, LogoutAccepted(g) PROVE LockInv'
  BY <1>16 DEF LogoutAccepted, LogoutLeaving, LogoutEnds, Deactivate
<1>17. ASSUME NEW g \in Callers, LogoutFailed(g) PROVE LockInv'
  BY <1>17 DEF LogoutFailed, LogoutEnds, Deactivate
<1>18. CASE AccessExpires \/ RefreshExpires
  BY <1>18 DEF AccessExpires, RefreshExpires, Disrupt
<1>19. ASSUME NEW t \in Nat, RevokeAccess(t) PROVE LockInv'
  BY <1>19 DEF RevokeAccess, Disrupt
<1>20. ASSUME NEW t \in Nat, RevokeRefresh(t) PROVE LockInv'
  BY <1>20 DEF RevokeRefresh, Disrupt
<1>21. CASE UNCHANGED vars
  BY <1>21 DEF vars
<1> QED
  BY StepCases, <1>1, <1>2, <1>3, <1>4, <1>5, <1>6, <1>7, <1>8, <1>9, <1>10,
     <1>11, <1>12, <1>13, <1>14, <1>15, <1>16, <1>17, <1>18, <1>19, <1>20,
     <1>21

\* Tokens in the cache, in flight and in use were issued: no action makes one up.
LEMMA IssuedStep == TypeOK /\ LockInv /\ IssuedInv /\ [Next]_vars => IssuedInv'
PROOF
<1> SUFFICES ASSUME TypeOK, LockInv, IssuedInv, [Next]_vars PROVE IssuedInv'
  OBVIOUS
<1> USE ConstantsOK DEF ConstantsOK, TypeOK, LockInv, IssuedInv, Holding, NoToken, callVars, sourceVars, serverVars
<1>c. /\ cache.access \in Nat /\ cache.refresh \in Nat
      /\ DropAccess(cache).access = NoToken /\ DropAccess(cache).refresh = cache.refresh
      /\ DropRefresh(cache).access = cache.access /\ DropRefresh(cache).refresh = NoToken
      /\ DropBoth(cache).access = NoToken /\ DropBoth(cache).refresh = NoToken
  <2>1. NoReply \in TokenResponse
    BY DEF NoReply, TokenResponse, NoToken
  <2> QED BY <2>1, CacheFields DEF AllBackends, TokenCache
<1>s. ASSUME NEW g \in Callers
      PROVE  /\ Store(backend, cache, reply[g]).access = reply[g].access
             /\ Store(backend, cache, reply[g]).refresh \in {cache.refresh, reply[g].refresh}
             /\ reply[g].access \in Nat /\ reply[g].refresh \in Nat
  BY CacheFields DEF TokenResponse
<1>1. ASSUME NEW g \in Callers, Begin(g) PROVE IssuedInv'
  <2>1. ASSUME NEW at \in {"getToken", "logout"}, Start(g, at)
        PROVE  IssuedInv'
    BY <2>1 DEF Start
  <2> QED BY <1>1, <2>1 DEF Begin, BeginCall, BeginLogout
<1>2. ASSUME NEW g \in Callers, Cancel(g) PROVE IssuedInv'
  BY <1>2 DEF Cancel
<1>3. ASSUME NEW g \in Callers, UseCachedToken(g) PROVE IssuedInv'
  BY <1>3 DEF UseCachedToken, SendWith
<1>4. ASSUME NEW g \in Callers, StartRefresh(g) PROVE IssuedInv'
  BY <1>4 DEF StartRefresh, PostLocked
<1>5. ASSUME NEW g \in Callers, StartLogin(g) PROVE IssuedInv'
  BY <1>5 DEF StartLogin, PostLocked
<1>6. ASSUME NEW g \in Callers, NEW s \in Shapes, Grant(g, s)
     PROVE  IssuedInv'
  <2>1. /\ issued \in Nat /\ issued' = issued + 1
        /\ UNCHANGED <<cache, token, rejected, mu>>
    BY <1>6 DEF Grant
  <2>2. liveAccess' \subseteq 1 .. issued'
    <3>1. liveAccess' \subseteq liveAccess \cup {issued + 1}
      BY <1>6 DEF Grant
    <3> QED BY <2>1, <3>1
  <2>3. ASSUME NEW h \in Callers, pc'[h] = "granted"
        PROVE  /\ reply'[h].access \in {NoToken, issued'}
               /\ reply'[h].refresh \in {NoToken, issued'}
    <3>1. h = g
      BY <1>6, <2>3 DEF Grant
    <3>2. reply'[g] = NextReply(s)
      BY <1>6 DEF Grant
    <3> QED BY <2>1, <3>1, <3>2 DEF NextReply
  <2>4. /\ cache.access <= issued + 1 /\ cache.refresh <= issued + 1
        /\ \A h \in Callers : token[h] <= issued + 1 /\ rejected[h] <= issued + 1
    BY <1>c, <2>1
  <2> QED BY <2>1, <2>2, <2>3, <2>4
<1>7. ASSUME NEW g \in Callers, GrantReceived(g) PROVE IssuedInv'
  BY <1>7, <1>c, <1>s DEF GrantReceived, SendWith
<1>8. ASSUME NEW g \in Callers, TokenRequestFailed(g), pc[g] \in {"refresh", "login", "granted"}
     PROVE  IssuedInv'
  BY <1>8 DEF TokenRequestFailed
<1>9. ASSUME NEW g \in Callers, RefreshRejected(g) PROVE IssuedInv'
  BY <1>9, <1>c DEF RefreshRejected, RefreshIsRejected
<1>10. ASSUME NEW g \in Callers, ServerStep(g) PROVE IssuedInv'
  <2>1. /\ UNCHANGED <<cache, token, rejected, reply, issued, liveAccess>>
        /\ pc' = [pc EXCEPT ![g] = "answered"]
    BY <1>10 DEF ServerStep, Execute, RejectToken, Refuse, Answer
  <2> QED BY <2>1
<1>11. ASSUME NEW g \in Callers, ReplayOn401(g) PROVE IssuedInv'
  BY <1>11, <1>c DEF ReplayOn401, Replay
<1>12. ASSUME NEW g \in Callers, Return(g) PROVE IssuedInv'
  BY <1>12 DEF Return, Finish
<1>13. ASSUME NEW g \in Callers, LogoutLocally(g) PROVE IssuedInv'
  BY <1>13, <1>c DEF LogoutLocally, LogoutEnds
<1>14. ASSUME NEW g \in Callers, LogoutNothing(g) PROVE IssuedInv'
  BY <1>14 DEF LogoutNothing, LogoutEnds
<1>15. ASSUME NEW g \in Callers, PostLogout(g) PROVE IssuedInv'
  BY <1>15 DEF PostLogout, PostLocked
<1>16. ASSUME NEW g \in Callers, LogoutAccepted(g) PROVE IssuedInv'
  <2>1. /\ cache' = DropBoth(cache) /\ liveAccess' \subseteq liveAccess
        /\ UNCHANGED <<token, rejected, reply, issued>>
        /\ pc' = [pc EXCEPT ![g] = "idle"]
    BY <1>16 DEF LogoutAccepted, LogoutLeaving, LogoutEnds, Deactivate
  <2> QED BY <2>1, <1>c
<1>17. ASSUME NEW g \in Callers, LogoutFailed(g) PROVE IssuedInv'
  BY <1>17 DEF LogoutFailed, LogoutEnds, Deactivate
<1>18. CASE AccessExpires \/ RefreshExpires
  <2>1. cache'.access = cache.access /\ cache'.refresh = cache.refresh
    BY <1>18 DEF AccessExpires, RefreshExpires, TokenCache
  <2> QED BY <1>18, <2>1 DEF AccessExpires, RefreshExpires, Disrupt
<1>19. ASSUME NEW t \in Nat, RevokeAccess(t) PROVE IssuedInv'
  BY <1>19 DEF RevokeAccess, Disrupt
<1>20. ASSUME NEW t \in Nat, RevokeRefresh(t) PROVE IssuedInv'
  BY <1>20 DEF RevokeRefresh, Disrupt
<1>21. CASE UNCHANGED vars
  BY <1>21 DEF vars
<1> QED
  BY StepCases, <1>1, <1>2, <1>3, <1>4, <1>5, <1>6, <1>7, <1>8, <1>9, <1>10,
     <1>11, <1>12, <1>13, <1>14, <1>15, <1>16, <1>17, <1>18, <1>19, <1>20,
     <1>21

\* The replay of do() stays ahead of the rejected token: what may be cached, or
\* received by the holder of the mutex, while a call is being replayed.
LEMMA FreshStep == TypeOK /\ LockInv /\ IssuedInv /\ FreshInv /\ [Next]_vars => FreshInv'
PROOF
<1> SUFFICES ASSUME TypeOK, LockInv, IssuedInv, FreshInv, [Next]_vars PROVE FreshInv'
  OBVIOUS
<1> USE ConstantsOK DEF ConstantsOK, TypeOK, LockInv, IssuedInv, FreshInv, Newer, Holding, NoToken, callVars, sourceVars, serverVars
<1>c. /\ cache.access \in Nat /\ cache.refresh \in Nat
      /\ DropAccess(cache).access = NoToken /\ DropAccess(cache).refresh = cache.refresh
      /\ DropRefresh(cache).access = cache.access /\ DropRefresh(cache).refresh = NoToken
      /\ DropBoth(cache).access = NoToken /\ DropBoth(cache).refresh = NoToken
  <2>1. NoReply \in TokenResponse
    BY DEF NoReply, TokenResponse, NoToken
  <2> QED BY <2>1, CacheFields DEF AllBackends, TokenCache
<1>s. ASSUME NEW g \in Callers
      PROVE  /\ Store(backend, cache, reply[g]).access = reply[g].access
             /\ Store(backend, cache, reply[g]).refresh \in {cache.refresh, reply[g].refresh}
             /\ reply[g].access \in Nat /\ reply[g].refresh \in Nat
  BY CacheFields DEF TokenResponse
<1>1. ASSUME NEW g \in Callers, Begin(g) PROVE FreshInv'
  BY <1>1 DEF Begin, BeginCall, BeginLogout, Start
<1>2. ASSUME NEW g \in Callers, Cancel(g) PROVE FreshInv'
  BY <1>2 DEF Cancel
<1>3. ASSUME NEW g \in Callers, UseCachedToken(g) PROVE FreshInv'
  BY <1>3 DEF UseCachedToken, SendWith
<1>4. ASSUME NEW g \in Callers, StartRefresh(g) PROVE FreshInv'
  BY <1>4 DEF StartRefresh, PostLocked
<1>5. ASSUME NEW g \in Callers, StartLogin(g) PROVE FreshInv'
  BY <1>5 DEF StartLogin, PostLocked
<1>6. ASSUME NEW g \in Callers, NEW s \in Shapes, Grant(g, s)
     PROVE  FreshInv'
  BY <1>6 DEF Grant, NextReply
<1>7. ASSUME NEW g \in Callers, GrantReceived(g) PROVE FreshInv'
  BY <1>7, <1>c, <1>s DEF GrantReceived, SendWith
<1>8. ASSUME NEW g \in Callers, TokenRequestFailed(g), pc[g] \in {"refresh", "login", "granted"}
     PROVE  FreshInv'
  BY <1>8 DEF TokenRequestFailed
<1>9. ASSUME NEW g \in Callers, RefreshRejected(g) PROVE FreshInv'
  BY <1>9, <1>c DEF RefreshRejected, RefreshIsRejected
<1>10. ASSUME NEW g \in Callers, ServerStep(g) PROVE FreshInv'
  BY <1>10 DEF ServerStep, Execute, RejectToken, Refuse, Answer
<1>11. ASSUME NEW g \in Callers, ReplayOn401(g) PROVE FreshInv'
  BY <1>11, <1>c DEF ReplayOn401, Replay
<1>12. ASSUME NEW g \in Callers, Return(g) PROVE FreshInv'
  BY <1>12 DEF Return, Finish
<1>13. ASSUME NEW g \in Callers, LogoutLocally(g) PROVE FreshInv'
  BY <1>13, <1>c DEF LogoutLocally, LogoutEnds
<1>14. ASSUME NEW g \in Callers, LogoutNothing(g) PROVE FreshInv'
  BY <1>14 DEF LogoutNothing, LogoutEnds
<1>15. ASSUME NEW g \in Callers, PostLogout(g) PROVE FreshInv'
  BY <1>15 DEF PostLogout, PostLocked
<1>16. ASSUME NEW g \in Callers, LogoutAccepted(g) PROVE FreshInv'
  BY <1>16, <1>c DEF LogoutAccepted, LogoutLeaving, LogoutEnds, Deactivate
<1>17. ASSUME NEW g \in Callers, LogoutFailed(g) PROVE FreshInv'
  BY <1>17 DEF LogoutFailed, LogoutEnds, Deactivate
<1>18. CASE AccessExpires \/ RefreshExpires
  <2>1. cache'.access = cache.access /\ cache'.refresh = cache.refresh
    BY <1>18 DEF AccessExpires, RefreshExpires, TokenCache
  <2> QED BY <1>18, <2>1 DEF AccessExpires, RefreshExpires, Disrupt
<1>19. ASSUME NEW t \in Nat, RevokeAccess(t) PROVE FreshInv'
  BY <1>19 DEF RevokeAccess, Disrupt
<1>20. ASSUME NEW t \in Nat, RevokeRefresh(t) PROVE FreshInv'
  BY <1>20 DEF RevokeRefresh, Disrupt
<1>21. CASE UNCHANGED vars
  BY <1>21 DEF vars
<1> QED
  BY StepCases, <1>1, <1>2, <1>3, <1>4, <1>5, <1>6, <1>7, <1>8, <1>9, <1>10,
     <1>11, <1>12, <1>13, <1>14, <1>15, <1>16, <1>17, <1>18, <1>19, <1>20,
     <1>21

\* What the server executed agrees with where the call is and what it returns.
LEMMA EffectStep == TypeOK /\ EffectInv /\ [Next]_vars => EffectInv'
PROOF
<1> SUFFICES ASSUME TypeOK, EffectInv, [Next]_vars PROVE EffectInv'
  OBVIOUS
<1> USE ConstantsOK DEF ConstantsOK, TypeOK, EffectInv, Responses, Holding, Call!Done, Call!NotDone, callVars, sourceVars, serverVars
<1>1. ASSUME NEW g \in Callers, Begin(g) PROVE EffectInv'
  BY <1>1 DEF Begin, BeginCall, BeginLogout, Start
<1>2. ASSUME NEW g \in Callers, Cancel(g) PROVE EffectInv'
  BY <1>2 DEF Cancel
<1>3. ASSUME NEW g \in Callers, UseCachedToken(g) PROVE EffectInv'
  BY <1>3 DEF UseCachedToken, SendWith
<1>4. ASSUME NEW g \in Callers, StartRefresh(g) PROVE EffectInv'
  BY <1>4 DEF StartRefresh, PostLocked
<1>5. ASSUME NEW g \in Callers, StartLogin(g) PROVE EffectInv'
  BY <1>5 DEF StartLogin, PostLocked
<1>6. ASSUME NEW g \in Callers, NEW s \in Shapes, Grant(g, s)
     PROVE  EffectInv'
  BY <1>6 DEF Grant, NextReply
<1>7. ASSUME NEW g \in Callers, GrantReceived(g) PROVE EffectInv'
  BY <1>7 DEF GrantReceived, SendWith
<1>8. ASSUME NEW g \in Callers, TokenRequestFailed(g), pc[g] \in {"refresh", "login", "granted"}
     PROVE  EffectInv'
  BY <1>8 DEF TokenRequestFailed
<1>9. ASSUME NEW g \in Callers, RefreshRejected(g) PROVE EffectInv'
  BY <1>9 DEF RefreshRejected, RefreshIsRejected
<1>10. ASSUME NEW g \in Callers, ServerStep(g) PROVE EffectInv'
  BY <1>10 DEF ServerStep, Execute, RejectToken, Refuse, Answer
<1>11. ASSUME NEW g \in Callers, ReplayOn401(g) PROVE EffectInv'
  BY <1>11 DEF ReplayOn401, Replay
<1>12. ASSUME NEW g \in Callers, Return(g) PROVE EffectInv'
  BY <1>12 DEF Return, Finish
<1>13. ASSUME NEW g \in Callers, LogoutLocally(g) PROVE EffectInv'
  BY <1>13 DEF LogoutLocally, LogoutEnds
<1>14. ASSUME NEW g \in Callers, LogoutNothing(g) PROVE EffectInv'
  BY <1>14 DEF LogoutNothing, LogoutEnds
<1>15. ASSUME NEW g \in Callers, PostLogout(g) PROVE EffectInv'
  BY <1>15 DEF PostLogout, PostLocked
<1>16. ASSUME NEW g \in Callers, LogoutAccepted(g) PROVE EffectInv'
  BY <1>16 DEF LogoutAccepted, LogoutLeaving, LogoutEnds, Deactivate
<1>17. ASSUME NEW g \in Callers, LogoutFailed(g) PROVE EffectInv'
  BY <1>17 DEF LogoutFailed, LogoutEnds, Deactivate
<1>18. CASE AccessExpires \/ RefreshExpires
  BY <1>18 DEF AccessExpires, RefreshExpires, Disrupt
<1>19. ASSUME NEW t \in Nat, RevokeAccess(t) PROVE EffectInv'
  BY <1>19 DEF RevokeAccess, Disrupt
<1>20. ASSUME NEW t \in Nat, RevokeRefresh(t) PROVE EffectInv'
  BY <1>20 DEF RevokeRefresh, Disrupt
<1>21. CASE UNCHANGED vars
  BY <1>21 DEF vars
<1> QED
  BY StepCases, <1>1, <1>2, <1>3, <1>4, <1>5, <1>6, <1>7, <1>8, <1>9, <1>10,
     <1>11, <1>12, <1>13, <1>14, <1>15, <1>16, <1>17, <1>18, <1>19, <1>20,
     <1>21

\* A rejected token stays rejected: the server never accepts a dead token again.
LEMMA RejectedStep == TypeOK /\ IssuedInv /\ EffectInv /\ RejectedInv /\ [Next]_vars => RejectedInv'
PROOF
<1> SUFFICES ASSUME TypeOK, IssuedInv, EffectInv, RejectedInv, [Next]_vars PROVE RejectedInv'
  OBVIOUS
<1> USE ConstantsOK DEF ConstantsOK, TypeOK, IssuedInv, EffectInv, RejectedInv, Holding, NoToken, callVars, sourceVars, serverVars
<1>1. ASSUME NEW g \in Callers, Begin(g) PROVE RejectedInv'
  BY <1>1 DEF Begin, BeginCall, BeginLogout, Start
<1>2. ASSUME NEW g \in Callers, Cancel(g) PROVE RejectedInv'
  BY <1>2 DEF Cancel
<1>3. ASSUME NEW g \in Callers, UseCachedToken(g) PROVE RejectedInv'
  BY <1>3 DEF UseCachedToken, SendWith
<1>4. ASSUME NEW g \in Callers, StartRefresh(g) PROVE RejectedInv'
  BY <1>4 DEF StartRefresh, PostLocked
<1>5. ASSUME NEW g \in Callers, StartLogin(g) PROVE RejectedInv'
  BY <1>5 DEF StartLogin, PostLocked
<1>6. ASSUME NEW g \in Callers, NEW s \in Shapes, Grant(g, s)
     PROVE  RejectedInv'
  BY <1>6 DEF Grant, NextReply
<1>7. ASSUME NEW g \in Callers, GrantReceived(g) PROVE RejectedInv'
  BY <1>7 DEF GrantReceived, SendWith
<1>8. ASSUME NEW g \in Callers, TokenRequestFailed(g), pc[g] \in {"refresh", "login", "granted"}
     PROVE  RejectedInv'
  BY <1>8 DEF TokenRequestFailed
<1>9. ASSUME NEW g \in Callers, RefreshRejected(g) PROVE RejectedInv'
  BY <1>9 DEF RefreshRejected, RefreshIsRejected
<1>10. ASSUME NEW g \in Callers, ServerStep(g) PROVE RejectedInv'
  BY <1>10 DEF ServerStep, Execute, RejectToken, Refuse, Answer
<1>11. ASSUME NEW g \in Callers, ReplayOn401(g) PROVE RejectedInv'
  BY <1>11 DEF ReplayOn401, Replay
<1>12. ASSUME NEW g \in Callers, Return(g) PROVE RejectedInv'
  BY <1>12 DEF Return, Finish
<1>13. ASSUME NEW g \in Callers, LogoutLocally(g) PROVE RejectedInv'
  BY <1>13 DEF LogoutLocally, LogoutEnds
<1>14. ASSUME NEW g \in Callers, LogoutNothing(g) PROVE RejectedInv'
  BY <1>14 DEF LogoutNothing, LogoutEnds
<1>15. ASSUME NEW g \in Callers, PostLogout(g) PROVE RejectedInv'
  BY <1>15 DEF PostLogout, PostLocked
<1>16. ASSUME NEW g \in Callers, LogoutAccepted(g) PROVE RejectedInv'
  BY <1>16 DEF LogoutAccepted, LogoutLeaving, LogoutEnds, Deactivate
<1>17. ASSUME NEW g \in Callers, LogoutFailed(g) PROVE RejectedInv'
  BY <1>17 DEF LogoutFailed, LogoutEnds, Deactivate
<1>18. CASE AccessExpires \/ RefreshExpires
  BY <1>18 DEF AccessExpires, RefreshExpires, Disrupt
<1>19. ASSUME NEW t \in Nat, RevokeAccess(t) PROVE RejectedInv'
  BY <1>19 DEF RevokeAccess, Disrupt
<1>20. ASSUME NEW t \in Nat, RevokeRefresh(t) PROVE RejectedInv'
  BY <1>20 DEF RevokeRefresh, Disrupt
<1>21. CASE UNCHANGED vars
  BY <1>21 DEF vars
<1> QED
  BY StepCases, <1>1, <1>2, <1>3, <1>4, <1>5, <1>6, <1>7, <1>8, <1>9, <1>10,
     <1>11, <1>12, <1>13, <1>14, <1>15, <1>16, <1>17, <1>18, <1>19, <1>20,
     <1>21

\* After a SELF_MANAGED logout the cache stays empty until a login is granted.
LEMMA LogoutInvStep == TypeOK /\ LockInv /\ LogoutInv /\ [Next]_vars => LogoutInv'
PROOF
<1> SUFFICES ASSUME TypeOK, LockInv, LogoutInv, [Next]_vars PROVE LogoutInv'
  OBVIOUS
<1> USE ConstantsOK DEF ConstantsOK, TypeOK, LockInv, LogoutInv, Holding, MustRefresh, RefreshUsable, SelfRefreshUsable, SelfManaged, Keycloak, Other, NothingCached, callVars, sourceVars, serverVars
<1>c. /\ cache.access \in Nat /\ cache.refresh \in Nat
      /\ DropAccess(cache).access = NoToken /\ DropAccess(cache).refresh = cache.refresh
      /\ DropRefresh(cache).access = cache.access /\ DropRefresh(cache).refresh = NoToken
      /\ DropBoth(cache).access = NoToken /\ DropBoth(cache).refresh = NoToken
  <2>1. NoReply \in TokenResponse
    BY DEF NoReply, TokenResponse, NoToken
  <2> QED BY <2>1, CacheFields DEF AllBackends, TokenCache
<1>s. ASSUME NEW g \in Callers
      PROVE  /\ Store(backend, cache, reply[g]).access = reply[g].access
             /\ Store(backend, cache, reply[g]).refresh \in {cache.refresh, reply[g].refresh}
             /\ reply[g].access \in Nat /\ reply[g].refresh \in Nat
  BY CacheFields DEF TokenResponse
<1>1. ASSUME NEW g \in Callers, Begin(g) PROVE LogoutInv'
  BY <1>1 DEF Begin, BeginCall, BeginLogout, Start
<1>2. ASSUME NEW g \in Callers, Cancel(g) PROVE LogoutInv'
  BY <1>2 DEF Cancel
<1>3. ASSUME NEW g \in Callers, UseCachedToken(g) PROVE LogoutInv'
  BY <1>3 DEF UseCachedToken, SendWith
<1>4. ASSUME NEW g \in Callers, StartRefresh(g) PROVE LogoutInv'
  BY <1>4 DEF StartRefresh, PostLocked
<1>5. ASSUME NEW g \in Callers, StartLogin(g) PROVE LogoutInv'
  BY <1>5 DEF StartLogin, PostLocked
<1>6. ASSUME NEW g \in Callers, NEW s \in Shapes, Grant(g, s)
     PROVE  LogoutInv'
  BY <1>6 DEF Grant, NextReply
<1>7. ASSUME NEW g \in Callers, GrantReceived(g) PROVE LogoutInv'
  BY <1>7, <1>c, <1>s DEF GrantReceived, SendWith
<1>8. ASSUME NEW g \in Callers, TokenRequestFailed(g), pc[g] \in {"refresh", "login", "granted"}
     PROVE  LogoutInv'
  BY <1>8 DEF TokenRequestFailed
<1>9. ASSUME NEW g \in Callers, RefreshRejected(g) PROVE LogoutInv'
  BY <1>9, <1>c DEF RefreshRejected, RefreshIsRejected
<1>10. ASSUME NEW g \in Callers, ServerStep(g) PROVE LogoutInv'
  BY <1>10 DEF ServerStep, Execute, RejectToken, Refuse, Answer
<1>11. ASSUME NEW g \in Callers, ReplayOn401(g) PROVE LogoutInv'
  BY <1>11, <1>c DEF ReplayOn401, Replay
<1>12. ASSUME NEW g \in Callers, Return(g) PROVE LogoutInv'
  BY <1>12 DEF Return, Finish
<1>13. ASSUME NEW g \in Callers, LogoutLocally(g) PROVE LogoutInv'
  BY <1>13, <1>c DEF LogoutLocally, LogoutEnds
<1>14. ASSUME NEW g \in Callers, LogoutNothing(g) PROVE LogoutInv'
  BY <1>14 DEF LogoutNothing, LogoutEnds
<1>15. ASSUME NEW g \in Callers, PostLogout(g) PROVE LogoutInv'
  BY <1>15 DEF PostLogout, PostLocked
<1>16. ASSUME NEW g \in Callers, LogoutAccepted(g) PROVE LogoutInv'
  BY <1>16, <1>c DEF LogoutAccepted, LogoutLeaving, LogoutEnds, Deactivate
<1>17. ASSUME NEW g \in Callers, LogoutFailed(g) PROVE LogoutInv'
  BY <1>17 DEF LogoutFailed, LogoutEnds, Deactivate
<1>18. CASE AccessExpires \/ RefreshExpires
  <2>1. cache'.access = cache.access /\ cache'.refresh = cache.refresh
    BY <1>18 DEF AccessExpires, RefreshExpires, TokenCache
  <2> QED BY <1>18, <2>1 DEF AccessExpires, RefreshExpires, Disrupt
<1>19. ASSUME NEW t \in Nat, RevokeAccess(t) PROVE LogoutInv'
  BY <1>19 DEF RevokeAccess, Disrupt
<1>20. ASSUME NEW t \in Nat, RevokeRefresh(t) PROVE LogoutInv'
  BY <1>20 DEF RevokeRefresh, Disrupt
<1>21. CASE UNCHANGED vars
  BY <1>21 DEF vars
<1> QED
  BY StepCases, <1>1, <1>2, <1>3, <1>4, <1>5, <1>6, <1>7, <1>8, <1>9, <1>10,
     <1>11, <1>12, <1>13, <1>14, <1>15, <1>16, <1>17, <1>18, <1>19, <1>20,
     <1>21

-----------------------------------------------------------------------------
(* The invariant is inductive.                                             *)

\* The inductive invariant holds initially.
LEMMA InvInit == Init => IInv
PROOF
<1> SUFFICES ASSUME Init PROVE IInv
  OBVIOUS
<1>1. TypeOK
  BY TypeInit
<1>2. LockInv
  BY ConstantsOK DEF ConstantsOK, Init, LockInv, Holding
<1>3. IssuedInv
  BY DEF Init, IssuedInv, EmptyCache, NoToken
<1>4. FreshInv /\ RejectedInv /\ LogoutInv
  BY DEF Init, FreshInv, RejectedInv, LogoutInv
<1>5. EffectInv
  BY DEF Init, EffectInv, Call!Done, Call!NotDone
<1> QED BY <1>1, <1>2, <1>3, <1>4, <1>5 DEF IInv

\* The inductive invariant is preserved, part by part.
LEMMA InvStep == IInv /\ [Next]_vars => IInv'
PROOF
  BY TypeStep, LockStep, IssuedStep, FreshStep, RejectedStep, EffectStep, LogoutInvStep DEF IInv

\* The inductive invariant holds in every reachable state.
LEMMA Inductive == Spec => []IInv
PROOF
  BY InvInit, InvStep, PTL DEF Spec

-----------------------------------------------------------------------------
(* The safety properties.                                                  *)

\* The replay of do() never carries the rejected token nor an older one, for
\* any number of goroutines and any faults.
THEOREM ReplayFresh == Spec => []ReplayIsFresh
PROOF
<1>1. IInv => ReplayIsFresh
  BY DEF IInv, FreshInv, Newer, ReplayIsFresh
<1> QED BY <1>1, Inductive, PTL

\* A caller sees a 401 only after two tokens that the server had both stopped
\* accepting.
THEOREM UnauthorizedGenuine == Spec => []UnauthorizedIsGenuine
PROOF
<1>1. IInv => UnauthorizedIsGenuine
  BY DEF IInv, RejectedInv, UnauthorizedIsGenuine
<1> QED BY <1>1, Inductive, PTL

\* After a SELF_MANAGED Logout, the next grant comes from a login.
THEOREM SelfManagedLogout == Spec => []SelfManagedLoginFollowsLogout
PROOF
<1>1. IInv => SelfManagedLoginFollowsLogout
  BY DEF IInv, LogoutInv, SelfManagedLoginFollowsLogout, LoginFollowsLogout
<1> QED BY <1>1, Inductive, PTL

\* A cached token is never replaced by one issued earlier.
THEOREM NewestGrant == Spec => NewestGrantKept
PROOF
<1> DEFINE Kept == /\ cache'.access # NoToken => cache'.access >= cache.access
                   /\ cache'.refresh # NoToken => cache'.refresh >= cache.refresh
<1>1. ASSUME IInv, [Next]_vars PROVE Kept \/ UNCHANGED vars
  <2> USE <1>1 DEF IInv, TypeOK
  <2>t. /\ cache.access \in Nat /\ cache.refresh \in Nat /\ issued \in Nat
        /\ cache.access <= issued /\ cache.refresh <= issued
    BY ConstantsOK DEF ConstantsOK, TokenCache, IssuedInv
  <2>n. NoReply \in TokenResponse
    BY DEF NoReply, TokenResponse, NoToken
  <2>1. CASE cache' = cache
    BY <2>1, <2>t
  <2>2. CASE cache' \in {DropAccess(cache), DropRefresh(cache), DropBoth(cache)}
    BY <2>2, <2>t, <2>n, CacheFields, ConstantsOK DEF ConstantsOK
  <2>3. ASSUME NEW g \in Callers, GrantReceived(g) PROVE Kept
    <3>1. /\ reply[g].access \in {NoToken, issued} /\ reply[g].refresh \in {NoToken, issued}
          /\ reply[g] \in TokenResponse
      BY <2>3 DEF GrantReceived, IssuedInv
    <3>2. /\ cache'.access = reply[g].access
          /\ cache'.refresh \in {cache.refresh, reply[g].refresh}
      BY <2>3, <3>1, CacheFields, ConstantsOK DEF GrantReceived, ConstantsOK
    <3> QED BY <2>t, <3>1, <3>2
  <2>4. CASE AccessExpires \/ RefreshExpires
    <3>1. cache'.access = cache.access /\ cache'.refresh = cache.refresh
      BY <2>4 DEF AccessExpires, RefreshExpires, TokenCache
    <3> QED BY <2>t, <3>1
  <2>5. \/ cache' = cache
        \/ cache' \in {DropAccess(cache), DropRefresh(cache), DropBoth(cache)}
        \/ \E g \in Callers : GrantReceived(g)
        \/ AccessExpires \/ RefreshExpires
    BY StepCases
       DEF Begin, BeginCall, BeginLogout, Start, Cancel, UseCachedToken, StartRefresh, StartLogin,
           Grant, TokenRequestFailed, RefreshRejected, ServerStep, Execute,
           RejectToken, Refuse, Answer, ReplayOn401, Replay, Return, Finish, LogoutLocally,
           LogoutNothing, PostLogout, PostLocked, LogoutAccepted, LogoutLeaving, LogoutFailed,
           RevokeAccess, RevokeRefresh, Disrupt, sourceVars, vars
  <2> QED BY <2>1, <2>2, <2>3, <2>4, <2>5
<1>2. IInv /\ [Next]_vars => [Kept]_vars
  BY <1>1
<1> QED BY <1>2, Inductive, PTL DEF Spec, NewestGrantKept

-----------------------------------------------------------------------------
(* Every request and logout is a one-shot call: KmsClient implements       *)
(* OneShotCall under the mapping that INSTANCE gives.                      *)

\* An initial state of the client is one of OneShotCall.
LEMMA OneShotInit == Init => Call!Init
PROOF
  BY DEF Init, Call!Init

\* Every step of the client is a step of OneShotCall or leaves its state alone.
LEMMA OneShotStep == IInv /\ [Next]_vars => [Call!Next]_Call!vars
PROOF
<1> SUFFICES ASSUME IInv, [Next]_vars PROVE [Call!Next]_Call!vars
  OBVIOUS
<1> USE DEF IInv, TypeOK, EffectInv
<1> DEFINE Ph  == [g \in Callers |-> IF pc[g] = "idle" THEN "idle" ELSE "open"]
           Out == [g \in Callers |-> IF pc[g] = "idle" THEN result[g] ELSE "none"]
<1>o. ASSUME NEW g \in Callers, NEW p \in Points \ {"idle"}, pc[g] # "idle",
             pc' = [pc EXCEPT ![g] = p],
             \A h \in Callers \ {g} : result'[h] = result[h],
             executed' = executed
      PROVE  UNCHANGED Call!vars
  <2>1. Ph' = Ph /\ Out' = Out
    BY <1>o
  <2> QED BY <1>o, <2>1 DEF Call!vars
<1>f. ASSUME NEW g \in Callers, NEW r \in Call!Done \cup Call!NotDone \cup Call!Unknown,
             pc[g] # "idle", pc' = [pc EXCEPT ![g] = "idle"],
             result' = [result EXCEPT ![g] = r], executed' = executed,
             r \in Call!Done => executed[g] = 1,
             r \in Call!NotDone => executed[g] = 0
      PROVE  Call!Next
  <2>1. Ph' = [Ph EXCEPT ![g] = "idle"] /\ Out' = [Out EXCEPT ![g] = r] /\ Ph[g] = "open"
    BY <1>f
  <2>2. Call!Finish(g, r)
    BY <1>f, <2>1 DEF Call!Finish
  <2> QED BY <2>2 DEF Call!Next
<1>1. ASSUME NEW g \in Callers, Begin(g) PROVE Call!Next
  <2>1. PICK at \in {"getToken", "logout"} : Start(g, at)
    BY <1>1 DEF Begin, BeginCall, BeginLogout
  <2>2. /\ Ph[g] = "idle" /\ Ph' = [Ph EXCEPT ![g] = "open"]
        /\ Out' = [Out EXCEPT ![g] = "none"]
        /\ executed' = [executed EXCEPT ![g] = 0]
    BY <2>1 DEF Start
  <2>3. Call!Open(g)
    BY <2>2 DEF Call!Open
  <2> QED BY <2>3 DEF Call!Next
<1>2. CASE pc' = pc /\ result' = result /\ executed' = executed
  BY <1>2 DEF Call!vars
<1>3. ASSUME NEW g \in Callers,
             \/ UseCachedToken(g) \/ StartRefresh(g) \/ StartLogin(g)
             \/ \E s \in Shapes : Grant(g, s)
             \/ GrantReceived(g) \/ RefreshRejected(g)
             \/ ReplayOn401(g) \/ PostLogout(g)
      PROVE  UNCHANGED Call!vars
  <2>1. /\ pc[g] # "idle"
        /\ \E p \in Points \ {"idle"} : pc' = [pc EXCEPT ![g] = p]
        /\ \A h \in Callers \ {g} : result'[h] = result[h]
        /\ executed' = executed
    BY <1>3 DEF UseCachedToken, SendWith, StartRefresh, StartLogin, PostLocked, Grant,
                GrantReceived, RefreshRejected, RefreshIsRejected, ReplayOn401, Replay,
                PostLogout, Points, Holding
  <2> QED BY <1>o, <2>1
<1>4. ASSUME NEW g \in Callers, ServerStep(g) PROVE [Call!Next]_Call!vars
  <2>1. ASSUME NEW r \in Results, Answer(g, 0, r) PROVE UNCHANGED Call!vars
    <3>1. /\ pc[g] # "idle" /\ pc' = [pc EXCEPT ![g] = "answered"]
          /\ \A h \in Callers \ {g} : result'[h] = result[h]
          /\ executed' = executed
      BY <2>1 DEF Answer
    <3> QED BY <1>o, <3>1 DEF Points
  <2>2. ASSUME NEW r \in Results, Answer(g, 1, r) PROVE Call!Next
    <3>0. /\ pc[g] = "send" /\ pc' = [pc EXCEPT ![g] = "answered"]
          /\ result' = [result EXCEPT ![g] = r]
          /\ executed[g] = 0 /\ executed' = [executed EXCEPT ![g] = executed[g] + 1]
      BY <2>2 DEF Answer
    <3>1. Ph[g] = "open" /\ Ph' = Ph /\ Out' = Out
      BY <3>0
    <3>e. executed' = [executed EXCEPT ![g] = 1]
      BY <3>0
    <3>2. Call!TakeEffect(g)
      BY <3>0, <3>1, <3>e DEF Call!TakeEffect
    <3> QED BY <3>2 DEF Call!Next
  <2> QED BY <1>4, <2>1, <2>2 DEF ServerStep, Execute, RejectToken, Refuse, Results
<1>5. ASSUME NEW g \in Callers,
             \/ TokenRequestFailed(g) /\ pc[g] \in {"refresh", "login", "granted"}
             \/ Return(g) \/ LogoutLocally(g) \/ LogoutNothing(g)
             \/ LogoutAccepted(g) \/ LogoutFailed(g)
      PROVE  Call!Next
  <2> USE DEF Call!Done, Call!NotDone, Call!Unknown
  <2>1. CASE Return(g)
    <3>1. /\ result[g] \in Responses /\ pc[g] # "idle" /\ executed' = executed
          /\ pc' = [pc EXCEPT ![g] = "idle"] /\ result' = [result EXCEPT ![g] = result[g]]
          /\ result[g] \in Call!Done => executed[g] = 1
          /\ result[g] \in Call!NotDone => executed[g] = 0
      BY <2>1 DEF Return, Finish
    <3> QED BY <1>f, <3>1 DEF Responses
  <2>2. CASE ~Return(g)
    <3>1. /\ pc[g] # "idle" /\ executed[g] = 0 /\ executed' = executed
          /\ pc' = [pc EXCEPT ![g] = "idle"]
          /\ \E r \in Call!NotDone : result' = [result EXCEPT ![g] = r]
      BY <1>5, <2>2 DEF TokenRequestFailed, LogoutLocally, LogoutNothing,
                        LogoutAccepted, LogoutLeaving, LogoutFailed, LogoutEnds
    <3> QED BY <1>f, <3>1
  <2> QED BY <2>1, <2>2
<1>6. ASSUME \/ \E g \in Callers : Cancel(g)
             \/ AccessExpires \/ RefreshExpires
             \/ \E t \in Nat : RevokeAccess(t) \/ RevokeRefresh(t)
             \/ UNCHANGED vars
      PROVE  pc' = pc /\ result' = result /\ executed' = executed
  BY <1>6 DEF Cancel, AccessExpires, RefreshExpires, RevokeAccess, RevokeRefresh, Disrupt,
              callVars, vars
<1> QED BY StepCases, <1>1, <1>2, <1>3, <1>4, <1>5, <1>6

\* KmsClient implements OneShotCall: no outcome of do() lies about the effects
\* of the operation, and none is executed twice, whatever is replayed.
THEOREM OneShot == Spec => CallsAreOneShot
PROOF
  BY OneShotInit, OneShotStep, Inductive, PTL DEF Spec, CallsAreOneShot, Call!Spec
=============================================================================
