-------------------------- MODULE KmsClientGrants --------------------------
(***************************************************************************)
(* Proof of the bound on the grants that a client of KmsClient asks for,   *)
(* for every finite set of callers, every choice of backends, operations   *)
(* and faults, and every bound: GrantsPerDisruption, and the sharper       *)
(* OneGrantPerDisruption of SPEC.md:44 where it does hold.                 *)
(*                                                                         *)
(* The argument is an account.  A grant is only asked for when nothing     *)
(* usable is cached.  What leaves the cache unusable is paid for by the    *)
(* step itself (it is a disruption), by an earlier disruption not yet used *)
(* up (a Logout under way, a cancelled context), or by a late 401: a       *)
(* caller who had taken a token that died on the server.  Each caller can  *)
(* bring at most one such 401 per dead token, because afterwards it never  *)
(* carries that token in a first attempt again.                            *)
(***************************************************************************)
EXTENDS KmsClientProofs, CountingLemmas

(***************************************************************************)
(* The token endpoint's replies carry an access token, and one that lasts: *)
(* an empty token, or one that expires as it arrives, is renewed by every  *)
(* call.  A generic OIDC provider may leave expires_in out.                *)
(***************************************************************************)
UsableReplies == \A s \in Shapes, b \in Backends : s.access /\ (s.expires \/ b = Other)

\* The tokens that died on the server.
Dead == (1 .. issued) \ liveAccess

\* The first attempt of g is under way with token t.
Bearer(g, t) == pc[g] \in {"send", "answered"} /\ attempt[g] = 0 /\ token[g] = t

\* A call may still be given token t.
Current(t) ==
  \/ t = cache.access
  \/ \E g \in Callers : pc[g] = "granted" /\ reply[g].access = t

\* The late 401s that can no longer come: g will never again make a first
\* attempt with the dead token t.
Exhausted == {e \in Callers \X Dead : ~Current(e[2]) /\ ~Bearer(e[1], e[2])}

\* The Logouts and the cancelled calls whose disruption is not used up yet.
Leaving == {g \in Callers : pc[g] \in {"logout", "logoutPost"}}
Doomed  == {g \in Callers : cancelled[g] /\ pc[g] # "idle"}

\* Nothing usable is cached or on its way: the next call asks for a grant.
NeedsGrant == ~AccessUsable(backend, cache) /\ \A g \in Callers : pc[g] # "granted"
Need       == IF NeedsGrant THEN 1 ELSE 0

\* How many there are of each.
LeavingCount == Cardinality(Leaving)
DoomedCount == Cardinality(Doomed)
DeadCount == Cardinality(Dead)
ExhaustedCount == Cardinality(Exhausted)

\* Grants made and grants due never exceed the disruptions and late 401s.
Account ==
  issued + Need + LeavingCount + DoomedCount + DeadCount
    <= 1 + disruptions + ExhaustedCount

\* A token is requested only when none is usable, a reply brings a usable one,
\* and no request leaves without a token.
RequestInv ==
  \A g \in Callers :
    /\ pc[g] \in {"refresh", "login"} => ~AccessUsable(backend, cache)
    /\ pc[g] = "granted" =>
         reply[g].access # NoToken /\ (reply[g].expires \/ backend = Other)
    /\ pc[g] \in {"send", "answered"} => token[g] # NoToken

\* The inductive invariant.
GInv == IInv /\ RequestInv /\ Account

-----------------------------------------------------------------------------
(* Counting.                                                               *)

\* The sets of the account are finite.
LEMMA CountedSets ==
  ASSUME IsFiniteSet(Callers), TypeOK
  PROVE  /\ IsFiniteSet(Leaving) /\ IsFiniteSet(Doomed)
         /\ IsFiniteSet(Dead) /\ IsFiniteSet(Exhausted)
PROOF
<1>1. Leaving \subseteq Callers /\ Doomed \subseteq Callers
  BY DEF Leaving, Doomed
<1>2. IsFiniteSet(Dead)
  <2>1. IsFiniteSet(1 .. issued)
    BY ConstantsOK, FS_Interval DEF TypeOK, ConstantsOK
  <2> QED BY <2>1, MoreElements DEF Dead
<1>3. IsFiniteSet(Callers \X Dead) /\ Exhausted \subseteq Callers \X Dead
  BY <1>2, FS_Product DEF Exhausted
<1> QED BY <1>1, <1>2, <1>3, MoreElements

\* So are they after a step.
LEMMA CountedSetsNext ==
  ASSUME IsFiniteSet(Callers), TypeOK'
  PROVE  /\ IsFiniteSet(Leaving') /\ IsFiniteSet(Doomed')
         /\ IsFiniteSet(Dead') /\ IsFiniteSet(Exhausted')
PROOF
<1>1. Leaving' \subseteq Callers /\ Doomed' \subseteq Callers
  BY DEF Leaving, Doomed
<1>2. IsFiniteSet(Dead')
  <2>1. IsFiniteSet(1 .. issued')
    BY ConstantsOK, FS_Interval DEF TypeOK, ConstantsOK
  <2> QED BY <2>1, MoreElements DEF Dead
<1>3. IsFiniteSet(Callers \X Dead') /\ Exhausted' \subseteq Callers \X Dead'
  BY <1>2, FS_Product DEF Exhausted
<1> QED BY <1>1, <1>2, <1>3, MoreElements

-----------------------------------------------------------------------------
(* One step.                                                               *)

\* Every step is one of the actions below, a failed token request with its
\* cause.
LEMMA CausedStepCases ==
  ASSUME TypeOK, [Next]_vars
  PROVE
    \/ \E g \in Callers :
         \/ BeginCall(g) \/ BeginLogout(g) \/ Cancel(g)
         \/ UseCachedToken(g) \/ StartRefresh(g) \/ StartLogin(g)
         \/ \E s \in Shapes : Grant(g, s)
         \/ GrantReceived(g) \/ GrantWasted(g)
         \/ RefreshRejected(g) \/ GrantRefused(g)
         \/ ServerStep(g) \/ ReplayOn401(g) \/ Return(g)
         \/ LogoutLocally(g) \/ LogoutNothing(g) \/ PostLogout(g)
         \/ LogoutAccepted(g) \/ LogoutFailed(g)
    \/ AccessExpires \/ RefreshExpires
    \/ \E t \in Nat : RevokeAccess(t) \/ RevokeRefresh(t)
    \/ UNCHANGED vars
PROOF
<1>1. CASE Environment
  BY <1>1 DEF Environment, TypeOK
<1> QED
  BY <1>1 DEF Next, Begin, GetTokenStep, TokenReplyStep, LogoutStep, LogoutReplyStep

\* What the operations on the cache make of a usable access token.
LEMMA UsableAfter ==
  ASSUME TypeOK
  PROVE  /\ ~AccessUsable(backend, DropAccess(cache))
         /\ ~AccessUsable(backend, DropBoth(cache))
         /\ AccessUsable(backend, DropRefresh(cache)) <=> AccessUsable(backend, cache)
         /\ AccessUsable(backend, [cache EXCEPT !.accessExpiry = "past"])
              => AccessUsable(backend, cache)
         /\ AccessUsable(backend, [cache EXCEPT !.refreshExpiry = "past"])
              <=> AccessUsable(backend, cache)
         /\ AccessUsable(backend, cache) => cache.access # NoToken
         /\ \A g \in Callers :
              (reply[g].access # NoToken /\ (reply[g].expires \/ backend = Other))
                => AccessUsable(backend, Store(backend, cache, reply[g]))
PROOF
<1>1. backend \in AllBackends /\ cache \in TokenCache
  BY ConstantsOK DEF ConstantsOK, TypeOK
<1>2. NoReply \in TokenResponse
  BY DEF NoReply, TokenResponse, NoToken
<1>3. \A g \in Callers : reply[g] \in TokenResponse
  BY DEF TypeOK
<1> HIDE DEF NoReply
<1> QED BY <1>1, <1>2, <1>3, CacheUsable

\* Requests are made for want of a usable token, and their replies bring one.
LEMMA RequestStep ==
  ASSUME UsableReplies, TypeOK, LockInv, IssuedInv, RequestInv, [Next]_vars
  PROVE  RequestInv'
PROOF
<1> USE DEF TypeOK, LockInv, RequestInv, Holding, callVars, sourceVars, serverVars
<1>c. Nobody \notin Callers /\ Backends \subseteq AllBackends
  BY ConstantsOK DEF ConstantsOK
<1>1. ASSUME NEW g \in Callers, BeginCall(g) \/ BeginLogout(g) PROVE RequestInv'
  BY <1>1 DEF BeginCall, BeginLogout, Start
<1>2. ASSUME NEW g \in Callers, Cancel(g) PROVE RequestInv'
  BY <1>2 DEF Cancel
<1>3. ASSUME NEW g \in Callers, UseCachedToken(g) PROVE RequestInv'
  BY <1>3, UsableAfter DEF UseCachedToken, SendWith
<1>4. ASSUME NEW g \in Callers, StartRefresh(g) \/ StartLogin(g) \/ PostLogout(g)
      PROVE  RequestInv'
  BY <1>4 DEF StartRefresh, StartLogin, PostLogout, PostLocked, MustRefresh, MustLogin
<1>5. ASSUME NEW g \in Callers, NEW s \in Shapes, Grant(g, s) PROVE RequestInv'
  <2>1. /\ reply' = [reply EXCEPT ![g] = NextReply(s)]
        /\ pc' = [pc EXCEPT ![g] = "granted"]
        /\ UNCHANGED <<cache, backend, token>>
    BY <1>5 DEF Grant
  <2>2. issued \in Nat
    BY ConstantsOK DEF ConstantsOK
  <2>3. /\ NextReply(s).access # NoToken
        /\ NextReply(s).expires \/ backend = Other
    BY <2>2 DEF NextReply, UsableReplies, NoToken
  <2> QED BY <2>1, <2>3
<1>6. ASSUME NEW g \in Callers, GrantReceived(g) PROVE RequestInv'
  BY <1>6, <1>c DEF GrantReceived, SendWith
<1>7. ASSUME NEW g \in Callers, GrantWasted(g) \/ GrantRefused(g) PROVE RequestInv'
  BY <1>7 DEF GrantWasted, GrantRefused, TokenRequestFailed
<1>8. ASSUME NEW g \in Callers, RefreshRejected(g) PROVE RequestInv'
  BY <1>8, UsableAfter DEF RefreshRejected, RefreshIsRejected
<1>9. ASSUME NEW g \in Callers, ServerStep(g) PROVE RequestInv'
  BY <1>9 DEF ServerStep, Execute, RejectToken, Refuse, Answer
<1>10. ASSUME NEW g \in Callers, ReplayOn401(g) PROVE RequestInv'
  BY <1>10, <1>c DEF ReplayOn401, Replay
<1>11. ASSUME NEW g \in Callers, Return(g) PROVE RequestInv'
  BY <1>11 DEF Return, Finish
<1>12. ASSUME NEW g \in Callers,
              LogoutLocally(g) \/ LogoutNothing(g) \/ LogoutAccepted(g) \/ LogoutFailed(g)
       PROVE  RequestInv'
  BY <1>12, <1>c, UsableAfter
  DEF LogoutLocally, LogoutNothing, LogoutAccepted, LogoutLeaving, LogoutFailed, LogoutEnds
<1>13. CASE AccessExpires \/ RefreshExpires
  BY <1>13, UsableAfter DEF AccessExpires, RefreshExpires, Disrupt
<1>14. ASSUME NEW t \in Nat, RevokeAccess(t) \/ RevokeRefresh(t) PROVE RequestInv'
  BY <1>14 DEF RevokeAccess, RevokeRefresh, Disrupt
<1>15. CASE UNCHANGED vars
  BY <1>15 DEF vars
<1> QED
  BY CausedStepCases, <1>1, <1>2, <1>3, <1>4, <1>5, <1>6, <1>7, <1>8, <1>9, <1>10,
     <1>11, <1>12, <1>13, <1>14, <1>15

\* A late 401 that can no longer come stays so: a token enters first attempts
\* only from the cache or a reply, and a dead one gets into neither.
LEMMA ExhaustedStep ==
  ASSUME IInv, [Next]_vars
  PROVE  Exhausted \subseteq Exhausted'
PROOF
<1> USE DEF IInv, TypeOK, LockInv, Holding, callVars, sourceVars, serverVars
<1>c. Nobody \notin Callers /\ Backends \subseteq AllBackends /\ issued \in Nat
  BY ConstantsOK DEF ConstantsOK
<1>d. ASSUME NEW t \in Dead PROVE t \in Nat \ {0} /\ t <= issued /\ t # NoToken
  BY <1>d, <1>c DEF Dead, NoToken
<1> DEFINE Kept == \A t \in Dead :
                     /\ t \in Dead'
                     /\ Current(t)' => Current(t)
                     /\ \A h \in Callers : Bearer(h, t)' => Bearer(h, t) \/ Current(t)
<1>k. Kept => Exhausted \subseteq Exhausted'
  BY DEF Exhausted
<1>f. /\ DropAccess(cache).access = NoToken /\ DropBoth(cache).access = NoToken
      /\ DropRefresh(cache).access = cache.access
      /\ \A g \in Callers : Store(backend, cache, reply[g]).access = reply[g].access
  <2>1. NoReply \in TokenResponse
    BY DEF NoReply, TokenResponse, NoToken
  <2>2. cache \in TokenCache /\ backend \in AllBackends
    BY <1>c
  <2>3. \A g \in Callers : reply[g] \in TokenResponse
    OBVIOUS
  <2> QED BY <2>1, <2>2, <2>3, CacheFields
<1> USE DEF Dead, Current, Bearer
<1>u. ASSUME cache'.access = cache.access,
             UNCHANGED <<pc, attempt, token, reply, issued, liveAccess>>
      PROVE  Kept
  BY <1>u
<1>1. ASSUME NEW g \in Callers, BeginCall(g) \/ BeginLogout(g) PROVE Kept
  BY <1>1 DEF BeginCall, BeginLogout, Start
<1>2. ASSUME NEW g \in Callers, Cancel(g) PROVE Kept
  BY <1>2 DEF Cancel
<1>3. ASSUME NEW g \in Callers, UseCachedToken(g) PROVE Kept
  BY <1>3 DEF UseCachedToken, SendWith
<1>4. ASSUME NEW g \in Callers, StartRefresh(g) \/ StartLogin(g) \/ PostLogout(g) PROVE Kept
  BY <1>4 DEF StartRefresh, StartLogin, PostLogout, PostLocked
<1>5. ASSUME NEW g \in Callers, NEW s \in Shapes, Grant(g, s) PROVE Kept
  <2>1. /\ reply' = [reply EXCEPT ![g] = NextReply(s)]
        /\ pc' = [pc EXCEPT ![g] = "granted"] /\ pc[g] \in {"refresh", "login"}
        /\ UNCHANGED <<cache, token, attempt>>
        /\ issued' = issued + 1 /\ liveAccess' \subseteq liveAccess \cup {issued + 1}
    BY <1>5 DEF Grant
  <2>2. NextReply(s).access \in {NoToken, issued + 1}
    BY DEF NextReply
  <2> QED BY <1>c, <1>d, <2>1, <2>2
<1>6. ASSUME NEW g \in Callers, GrantReceived(g) PROVE Kept
  <2>1. /\ cache'.access = reply[g].access /\ pc[g] = "granted"
        /\ token' = [token EXCEPT ![g] = reply[g].access]
        /\ pc' = [pc EXCEPT ![g] = "send"] /\ reply' = [reply EXCEPT ![g] = NoReply]
        /\ UNCHANGED <<attempt, issued, liveAccess>>
    BY <1>6, <1>f DEF GrantReceived, SendWith
  <2> QED BY <2>1
<1>7. ASSUME NEW g \in Callers, GrantWasted(g) \/ GrantRefused(g) PROVE Kept
  BY <1>7 DEF GrantWasted, GrantRefused, TokenRequestFailed
<1>8. ASSUME NEW g \in Callers, RefreshRejected(g) PROVE Kept
  BY <1>8, <1>f DEF RefreshRejected, RefreshIsRejected
<1>9. ASSUME NEW g \in Callers, ServerStep(g) PROVE Kept
  BY <1>9 DEF ServerStep, Execute, RejectToken, Refuse, Answer
<1>10. ASSUME NEW g \in Callers, ReplayOn401(g) PROVE Kept
  BY <1>10, <1>d, <1>f DEF ReplayOn401, Replay
<1>11. ASSUME NEW g \in Callers, Return(g) PROVE Kept
  BY <1>11 DEF Return, Finish
<1>12. ASSUME NEW g \in Callers,
              LogoutLocally(g) \/ LogoutNothing(g) \/ LogoutAccepted(g) \/ LogoutFailed(g)
       PROVE  Kept
  BY <1>12, <1>d, <1>f
  DEF LogoutLocally, LogoutNothing, LogoutAccepted, LogoutLeaving, LogoutFailed, LogoutEnds,
      Deactivate
<1>13. ASSUME AccessExpires \/ RefreshExpires PROVE Kept
  <2>1. cache'.access = cache.access
    BY <1>13 DEF AccessExpires, RefreshExpires, TokenCache
  <2>2. UNCHANGED <<pc, attempt, token, reply, issued, liveAccess>>
    BY <1>13 DEF AccessExpires, RefreshExpires, Disrupt
  <2> QED BY <1>u, <2>1, <2>2
<1>14. ASSUME NEW t \in Nat, RevokeAccess(t) \/ RevokeRefresh(t) PROVE Kept
  BY <1>14 DEF RevokeAccess, RevokeRefresh, Disrupt
<1>15. ASSUME UNCHANGED vars PROVE Kept
  <2>1. UNCHANGED <<pc, attempt, token, reply, issued, liveAccess, cache>>
    BY <1>15 DEF vars
  <2> QED BY <1>u, <2>1
<1>t. TypeOK
  OBVIOUS
<1> HIDE DEF IInv, TypeOK, LockInv, Kept, Dead, Current, Bearer
<1>16. Kept
  BY <1>t, CausedStepCases, <1>1, <1>2, <1>3, <1>4, <1>5, <1>6, <1>7, <1>8, <1>9, <1>10,
     <1>11, <1>12, <1>13, <1>14, <1>15
<1> QED BY <1>k, <1>16
\* The account balances after every step.
LEMMA AccountStep ==
  ASSUME IsFiniteSet(Callers), UsableReplies, IInv, RequestInv, Account, [Next]_vars
  PROVE  Account'
PROOF
<1>t. TypeOK /\ TypeOK' /\ LockInv
  BY InvStep DEF IInv
<1>f. /\ IsFiniteSet(Leaving) /\ IsFiniteSet(Doomed) /\ IsFiniteSet(Dead)
      /\ IsFiniteSet(Leaving') /\ IsFiniteSet(Doomed') /\ IsFiniteSet(Dead')
      /\ IsFiniteSet(Exhausted) /\ IsFiniteSet(Exhausted')
  BY <1>t, CountedSets, CountedSetsNext
<1>n. /\ LeavingCount \in Nat /\ DoomedCount \in Nat /\ DeadCount \in Nat /\ ExhaustedCount \in Nat
      /\ LeavingCount' \in Nat /\ DoomedCount' \in Nat /\ DeadCount' \in Nat /\ ExhaustedCount' \in Nat
      /\ issued \in Nat /\ issued' \in Nat /\ disruptions \in Nat /\ disruptions' \in Nat
  BY <1>f, <1>t, FS_CardinalityType, ConstantsOK DEF ConstantsOK, TypeOK, LeavingCount, DoomedCount, DeadCount, ExhaustedCount
<1>0. Need \in Nat /\ Need' \in Nat
  BY DEF Need
\* The numbers before and after the step, as constants.
<1>p. PICK i \in Nat, i1 \in Nat, w \in Nat, w1 \in Nat, l \in Nat, l1 \in Nat,
           d \in Nat, d1 \in Nat, k \in Nat, k1 \in Nat, f \in Nat, f1 \in Nat,
           x \in Nat, x1 \in Nat :
        /\ i = issued /\ i1 = issued' /\ w = Need /\ w1 = Need' /\ l = LeavingCount /\ l1 = LeavingCount'
        /\ d = DoomedCount /\ d1 = DoomedCount' /\ k = DeadCount /\ k1 = DeadCount' /\ f = disruptions /\ f1 = disruptions'
        /\ x = ExhaustedCount /\ x1 = ExhaustedCount'
  BY <1>n, <1>0
<1>w. /\ w1 <= w + 1
      /\ (NeedsGrant' => NeedsGrant) => w1 <= w
      /\ (NeedsGrant /\ ~NeedsGrant') => w1 + 1 <= w
  BY <1>p DEF Need
<1>a. i + w + l + d + k <= 1 + f + x
  BY <1>p DEF Account
<1>x. x <= x1
  BY <1>p, <1>f, ExhaustedStep, MoreElements DEF ExhaustedCount
<1>s. /\ Leaving' \subseteq Leaving => l1 <= l
      /\ Doomed' \subseteq Doomed => d1 <= d
      /\ Dead' \subseteq Dead => k1 <= k
  BY <1>p, <1>f, MoreElements DEF LeavingCount, DoomedCount, DeadCount
<1>g. i1 + w1 + l1 + d1 + k1 <= 1 + f1 + x1 => Account'
  BY <1>p DEF Account
<1>q. ASSUME NEW n \in {0, 1}, i1 = i, Leaving' \subseteq Leaving,
             Doomed' \subseteq Doomed, Dead' \subseteq Dead,
             w1 <= w + n, f1 >= f + n
      PROVE  Account'
  <2>1. l1 <= l /\ d1 <= d /\ k1 <= k
    BY <1>q, <1>s
  <2>2. i1 + w1 + l1 + d1 + k1 <= 1 + f1 + x1
    BY <1>a, <1>x, <1>q, <2>1
  <2> QED BY <1>g, <2>2
<1>v. ASSUME NEW g \in Callers, NEW p \in Points, pc[g] # "idle",
             pc' = [pc EXCEPT ![g] = p], cancelled' = cancelled
      PROVE  /\ Doomed' \subseteq Doomed
             /\ p = "idle" => g \notin Doomed'
             /\ pc[g] \in {"logout", "logoutPost"} => Leaving' \subseteq Leaving
             /\ p \notin {"logout", "logoutPost"} => Leaving' \subseteq Leaving /\ g \notin Leaving'
  BY <1>t, <1>v DEF TypeOK, Doomed, Leaving
<1>y. ASSUME UNCHANGED <<issued, liveAccess>> PROVE i1 = i /\ Dead' = Dead
  BY <1>p, <1>y DEF Dead
\* Steps within a call that leave the cache's usability alone.
<1>r. ASSUME NEW g \in Callers, NEW p \in Points, pc[g] \notin {"idle", "granted"},
             pc' = [pc EXCEPT ![g] = p], p \in {"logout", "logoutPost"} => pc[g] = "logout",
             UNCHANGED <<backend, cancelled, issued, liveAccess>>,
             AccessUsable(backend', cache') <=> AccessUsable(backend, cache), f1 >= f
      PROVE  Account'
  <2>1. NeedsGrant' => NeedsGrant
    BY <1>t, <1>r DEF NeedsGrant, TypeOK
  <2>2. Leaving' \subseteq Leaving /\ Doomed' \subseteq Doomed
    BY <1>r, <1>v
  <2>3. w1 <= w + 0 /\ f1 >= f + 0
    BY <1>r, <1>w, <2>1
  <2> QED BY <1>q, <1>r, <1>y, <2>2, <2>3
<1>e. ASSUME NEW kind, Fault(kind) PROVE f1 = f + 1
  BY <1>p, <1>e DEF Fault
<1>h. ASSUME NEW g \in Callers, ExchangeFails(g)
      PROVE  f1 = f + 1 \/ (f1 = f /\ cancelled[g])
  BY <1>p, <1>e, <1>h DEF ExchangeFails
<1>1. ASSUME NEW g \in Callers, BeginCall(g) \/ BeginLogout(g) PROVE Account'
  <2>1. /\ i1 = i /\ Dead' = Dead /\ UNCHANGED <<backend, cache>>
        /\ w1 <= w
        /\ Doomed' \subseteq Doomed
    BY <1>t, <1>1, <1>w, <1>y
    DEF BeginCall, BeginLogout, Start, TypeOK, Doomed, NeedsGrant, sourceVars, serverVars
  <2>2. CASE BeginCall(g)
    <3>1. Leaving' \subseteq Leaving /\ f1 = f
      BY <1>p, <1>t, <2>2 DEF BeginCall, Start, Leaving, TypeOK
    <3>2. w1 <= w + 0 /\ f1 >= f + 0
      BY <2>1, <3>1
    <3> QED BY <1>q, <2>1, <3>1, <3>2
  <2>3. CASE BeginLogout(g)
    <3>1. Leaving' \subseteq Leaving \cup {g} /\ f1 = f + 1
      BY <1>p, <1>t, <2>3 DEF BeginLogout, Start, Leaving, TypeOK
    <3>2. l1 <= l + 1
      BY <1>f, <1>p, <3>1, OneMoreElement DEF LeavingCount
    <3>3. i1 + w1 + l1 + d1 + k1 <= 1 + f1 + x1
      BY <1>a, <1>x, <1>s, <2>1, <3>1, <3>2
    <3> QED BY <1>g, <3>3
  <2> QED BY <1>1, <2>2, <2>3
<1>2. ASSUME NEW g \in Callers, Cancel(g) PROVE Account'
  <2>1. /\ i1 = i /\ Dead' = Dead /\ Leaving' = Leaving /\ NeedsGrant' = NeedsGrant
        /\ Doomed' \subseteq Doomed \cup {g} /\ f1 = f + 1
    BY <1>e, <1>t, <1>2, <1>y
    DEF Cancel, TypeOK, Leaving, Doomed, NeedsGrant, sourceVars, serverVars
  <2>2. d1 <= d + 1
    BY <1>f, <1>p, <2>1, OneMoreElement DEF DoomedCount
  <2>3. i1 + w1 + l1 + d1 + k1 <= 1 + f1 + x1
    BY <1>a, <1>x, <1>s, <1>w, <2>1, <2>2
  <2> QED BY <1>g, <2>3
<1>3. ASSUME NEW g \in Callers, UseCachedToken(g) PROVE Account'
  <2>1. /\ pc[g] = "getToken" /\ pc' = [pc EXCEPT ![g] = "send"]
        /\ UNCHANGED <<backend, cache, cancelled, issued, liveAccess, disruptions>>
    BY <1>3 DEF UseCachedToken, SendWith, sourceVars, serverVars
  <2>2. f1 >= f
    BY <1>p, <2>1
  <2> QED BY <1>r, <2>1, <2>2 DEF Points, Holding
<1>4. ASSUME NEW g \in Callers, StartRefresh(g) \/ StartLogin(g) \/ PostLogout(g)
      PROVE  Account'
  <2>1. /\ UNCHANGED <<backend, cache, cancelled, issued, liveAccess, disruptions>>
        /\ \/ pc[g] = "getToken" /\ pc' = [pc EXCEPT ![g] = "refresh"]
           \/ pc[g] = "getToken" /\ pc' = [pc EXCEPT ![g] = "login"]
           \/ pc[g] = "logout" /\ pc' = [pc EXCEPT ![g] = "logoutPost"]
    BY <1>4 DEF StartRefresh, StartLogin, PostLogout, PostLocked, serverVars
  <2> QED BY <1>r, <1>p, <2>1 DEF Points, Holding
<1>5. ASSUME NEW g \in Callers, NEW s \in Shapes, Grant(g, s) PROVE Account'
  <2>1. /\ pc[g] \in {"refresh", "login"} /\ pc' = [pc EXCEPT ![g] = "granted"]
        /\ UNCHANGED <<backend, mu, cache, cancelled, disruptions>>
        /\ issued' = issued + 1 /\ s.access
        /\ liveAccess' = liveAccess \cup {issued + 1}
    BY <1>5, <1>t DEF Grant, UsableReplies, TypeOK
  <2>2. NeedsGrant /\ ~NeedsGrant'
    <3>1. ~AccessUsable(backend, cache)
      BY <2>1 DEF RequestInv
    <3>2. \A h \in Callers : pc[h] # "granted"
      BY <1>t, <2>1 DEF LockInv, Holding
    <3>3. pc'[g] = "granted"
      BY <1>t, <2>1 DEF TypeOK
    <3> QED BY <3>1, <3>2, <3>3 DEF NeedsGrant
  <2>3. Dead' \subseteq Dead
    BY <1>n, <2>1 DEF Dead
  <2>4. Leaving' \subseteq Leaving /\ Doomed' \subseteq Doomed
    <3>1. pc[g] # "idle" /\ cancelled' = cancelled /\ "granted" \in Points
      BY <2>1 DEF Points, Holding
    <3>2. pc' = [pc EXCEPT ![g] = "granted"]
      BY <2>1
    <3> QED BY <1>v, <3>1, <3>2
  <2>5. i1 = i + 1 /\ f1 = f /\ w1 + 1 <= w
    BY <1>p, <1>w, <2>1, <2>2
  <2>6. i1 + w1 + l1 + d1 + k1 <= 1 + f1 + x1
    BY <1>a, <1>x, <1>s, <2>3, <2>4, <2>5
  <2> QED BY <1>g, <2>6
<1>6. ASSUME NEW g \in Callers, GrantReceived(g) PROVE Account'
  <2>1. /\ pc[g] = "granted" /\ pc' = [pc EXCEPT ![g] = "send"]
        /\ cache' = Store(backend, cache, reply[g])
        /\ UNCHANGED <<backend, cancelled, issued, liveAccess, disruptions>>
    BY <1>6 DEF GrantReceived, SendWith, serverVars
  <2>2. ~NeedsGrant'
    BY <1>t, <2>1, UsableAfter DEF NeedsGrant, RequestInv
  <2>3. Leaving' \subseteq Leaving /\ Doomed' \subseteq Doomed
    <3>1. pc[g] # "idle" /\ cancelled' = cancelled /\ "send" \in Points
      BY <2>1 DEF Points
    <3>2. pc' = [pc EXCEPT ![g] = "send"]
      BY <2>1
    <3> QED BY <1>v, <3>1, <3>2
  <2>4. w1 <= w + 0 /\ f1 >= f + 0
    BY <1>p, <1>w, <2>1, <2>2
  <2> QED BY <1>q, <1>y, <2>1, <2>3, <2>4
<1>7. ASSUME NEW g \in Callers, GrantWasted(g) PROVE Account'
  <2>1. /\ pc[g] = "granted" /\ pc' = [pc EXCEPT ![g] = "idle"]
        /\ UNCHANGED <<cancelled, issued, liveAccess>>
    BY <1>7 DEF GrantWasted, TokenRequestFailed, serverVars
  <2>2. Leaving' \subseteq Leaving /\ Doomed' \subseteq Doomed /\ g \notin Doomed'
    <3>1. pc[g] # "idle" /\ cancelled' = cancelled /\ "idle" \in Points
      BY <2>1 DEF Points
    <3>2. pc' = [pc EXCEPT ![g] = "idle"]
      BY <2>1
    <3> QED BY <1>v, <3>1, <3>2
  <2>3. Accepts(backend, reply[g])
    BY <2>1 DEF Accepts, OIDCAccepts, RequestInv
  <2>4. f1 = f + 1 \/ (f1 = f /\ cancelled[g])
    BY <1>7, <1>e, <1>h, <2>3 DEF GrantWasted
  <2>5. CASE f1 = f + 1
    <3>1. w1 <= w + 1 /\ f1 >= f + 1
      BY <1>w, <2>5
    <3> QED BY <1>q, <1>y, <2>1, <2>2, <3>1
  <2>6. CASE f1 = f /\ cancelled[g]
    <3>1. g \in Doomed
      BY <1>t, <2>1, <2>6 DEF Doomed, TypeOK
    <3>2. d1 + 1 <= d
      BY <1>f, <1>p, <2>2, <3>1, MoreElements DEF DoomedCount
    <3>3. i1 + w1 + l1 + d1 + k1 <= 1 + f1 + x1
      BY <1>a, <1>x, <1>s, <1>w, <1>y, <2>1, <2>2, <2>6, <3>2
    <3> QED BY <1>g, <3>3
  <2> QED BY <2>4, <2>5, <2>6
<1>8. ASSUME NEW g \in Callers, RefreshRejected(g) PROVE Account'
  <2>1. /\ pc[g] = "refresh" /\ pc' = [pc EXCEPT ![g] = "login"]
        /\ cache' = DropRefresh(cache)
        /\ UNCHANGED <<backend, cancelled, issued, liveAccess>>
    BY <1>8 DEF RefreshRejected, RefreshIsRejected, serverVars
  <2>2. f1 >= f
    BY <1>8, <1>e, <1>p DEF RefreshRejected, RefreshIsRejected
  <2> QED BY <1>r, <1>t, <2>1, <2>2, UsableAfter DEF Points, Holding
<1>9. ASSUME NEW g \in Callers, GrantRefused(g) PROVE Account'
  <2>1. /\ pc[g] \in {"refresh", "login"} /\ pc' = [pc EXCEPT ![g] = "idle"]
        /\ UNCHANGED <<backend, cache, cancelled, issued, liveAccess>>
    BY <1>9 DEF GrantRefused, TokenRequestFailed, serverVars
  <2>2. f1 >= f
    BY <1>9, <1>e, <1>h, <1>p DEF GrantRefused
  <2> QED BY <1>r, <2>1, <2>2 DEF Points, Holding
<1>10. ASSUME NEW g \in Callers, ServerStep(g) PROVE Account'
  <2>1. /\ pc[g] = "send" /\ pc' = [pc EXCEPT ![g] = "answered"]
        /\ UNCHANGED <<backend, cache, cancelled, issued, liveAccess>>
    BY <1>10 DEF ServerStep, Execute, RejectToken, Refuse, Answer, sourceVars, serverVars
  <2>2. f1 >= f
    BY <1>10, <1>e, <1>h, <1>p DEF ServerStep, Execute, RejectToken, Refuse
  <2> QED BY <1>r, <2>1, <2>2 DEF Points, Holding
<1>11. ASSUME NEW g \in Callers, Return(g) PROVE Account'
  <2>1. /\ pc[g] = "answered" /\ pc' = [pc EXCEPT ![g] = "idle"]
        /\ UNCHANGED <<backend, cache, cancelled, issued, liveAccess, disruptions>>
    BY <1>11 DEF Return, Finish, sourceVars, serverVars
  <2>2. f1 >= f
    BY <1>p, <2>1
  <2> QED BY <1>r, <2>1, <2>2 DEF Points, Holding
<1>12. ASSUME NEW g \in Callers, ReplayOn401(g) PROVE Account'
  <2>1. /\ pc[g] = "answered" /\ attempt[g] = 0 /\ result[g] = "unauthorized" /\ mu = Nobody
        /\ pc' = [pc EXCEPT ![g] = "getToken"] /\ cache' = DropAccess(cache)
        /\ UNCHANGED <<reply, cancelled, issued, liveAccess, disruptions>>
    BY <1>12 DEF ReplayOn401, Replay, serverVars
  <2>2. Leaving' \subseteq Leaving /\ Doomed' \subseteq Doomed
    <3>1. pc[g] # "idle" /\ cancelled' = cancelled /\ "getToken" \in Points
      BY <2>1 DEF Points
    <3>2. pc' = [pc EXCEPT ![g] = "getToken"]
      BY <2>1
    <3> QED BY <1>v, <3>1, <3>2
  \* The 401 that came is one of those that can no longer come.
  <2>3. <<g, token[g]>> \in Exhausted' /\ <<g, token[g]>> \notin Exhausted
    <3>1. token[g] \in Dead
      <4>1. token[g] \in Nat /\ token[g] # NoToken /\ token[g] <= issued
        BY <1>t, <2>1 DEF RequestInv, IInv, IssuedInv, TypeOK
      <4>2. token[g] \notin liveAccess
        BY <2>1 DEF IInv, RejectedInv
      <4> QED BY <1>n, <4>1, <4>2 DEF Dead, NoToken
    <3>2. Bearer(g, token[g])
      BY <2>1 DEF Bearer
    <3>3. token[g] \in Dead' /\ token[g] # NoToken
      BY <1>y, <2>1, <3>1 DEF Dead, NoToken
    <3>4. \A t : ~Bearer(g, t)'
      BY <1>t, <2>1 DEF Bearer, TypeOK
    <3>5. \A h \in Callers : pc'[h] # "granted"
      BY <1>t, <2>1, ConstantsOK DEF ConstantsOK, TypeOK, LockInv, Holding
    <3>6. cache'.access = NoToken
      BY <1>t, <2>1 DEF DropAccess, TypeOK, TokenCache
    <3>7. \A t : t # NoToken => ~Current(t)'
      BY <3>5, <3>6 DEF Current
    <3> QED BY <3>2, <3>3, <3>4, <3>7 DEF Exhausted
  <2>4. x + 1 <= x1
    BY <1>f, <1>p, <2>3, ExhaustedStep, MoreElements DEF ExhaustedCount
  <2>5. f1 = f
    BY <1>p, <2>1
  <2>6. i1 + w1 + l1 + d1 + k1 <= 1 + f1 + x1
    BY <1>a, <1>s, <1>w, <1>y, <2>1, <2>2, <2>4, <2>5
  <2> QED BY <1>g, <2>6
\* A Logout under way is used up when it ends.
<1>u. ASSUME NEW g \in Callers, pc[g] \in {"logout", "logoutPost"},
             pc' = [pc EXCEPT ![g] = "idle"], cancelled' = cancelled
      PROVE  l1 + 1 <= l /\ d1 <= d
  <2>1. "idle" \in Points /\ pc[g] # "idle"
    BY <1>u DEF Points
  <2>2. Leaving' \subseteq Leaving /\ g \notin Leaving' /\ Doomed' \subseteq Doomed
    BY <1>u, <1>v, <2>1
  <2>3. g \in Leaving
    BY <1>u DEF Leaving
  <2>4. l1 + 1 <= l
    BY <1>f, <1>p, <2>2, <2>3, MoreElements DEF LeavingCount
  <2> QED BY <1>s, <2>2, <2>4
<1>13. ASSUME NEW g \in Callers, LogoutLocally(g) \/ LogoutNothing(g) PROVE Account'
  <2>1. /\ pc[g] = "logout" /\ pc' = [pc EXCEPT ![g] = "idle"]
        /\ UNCHANGED <<cancelled, issued, liveAccess, disruptions>>
    BY <1>13 DEF LogoutLocally, LogoutNothing, LogoutEnds
  <2>2. l1 + 1 <= l /\ d1 <= d
    BY <1>u, <2>1
  <2>3. f1 = f
    BY <1>p, <2>1
  <2>4. i1 + w1 + l1 + d1 + k1 <= 1 + f1 + x1
    BY <1>a, <1>x, <1>s, <1>w, <1>y, <2>1, <2>2, <2>3
  <2> QED BY <1>g, <2>4
<1>14. ASSUME NEW g \in Callers, LogoutAccepted(g) PROVE Account'
  <2>1. /\ pc[g] = "logoutPost" /\ pc' = [pc EXCEPT ![g] = "idle"]
        /\ cache' = DropBoth(cache) /\ liveAccess' = liveAccess \ {cache.access}
        /\ UNCHANGED <<reply, cancelled, issued, disruptions>>
    BY <1>14 DEF LogoutAccepted, LogoutLeaving, LogoutEnds, Deactivate
  <2>2. l1 + 1 <= l /\ d1 <= d
    BY <1>u, <2>1
  <2>3. i1 = i /\ f1 = f
    BY <1>p, <2>1
  <2>4. CASE Dead' \subseteq Dead
    <3>1. i1 + w1 + l1 + d1 + k1 <= 1 + f1 + x1
      BY <1>a, <1>x, <1>s, <1>w, <2>2, <2>3, <2>4
    <3> QED BY <1>g, <3>1
  \* The token leaves the cache as it dies: g itself will bring no 401 about it.
  <2>5. CASE ~(Dead' \subseteq Dead)
    <3>1. Dead' \subseteq Dead \cup {cache.access}
      BY <2>1 DEF Dead
    <3>2. cache.access \in Dead'
      BY <2>5, <3>1
    <3>3. <<g, cache.access>> \in Exhausted' /\ <<g, cache.access>> \notin Exhausted
      <4>1. Current(cache.access)
        BY DEF Current
      <4>2. pc'[g] = "idle" /\ \A h \in Callers : pc'[h] # "granted"
        BY <1>t, <2>1 DEF TypeOK, LockInv, Holding
      <4>3. cache'.access = NoToken
        BY <1>t, <2>1 DEF DropBoth, TypeOK, TokenCache
      <4>4. cache.access # NoToken
        BY <1>n, <3>2 DEF Dead, NoToken
      <4>5. \A t : t # NoToken => ~Current(t)'
        BY <4>2, <4>3 DEF Current
      <4>6. \A t : ~Bearer(g, t)'
        BY <4>2 DEF Bearer
      <4> QED BY <3>2, <4>1, <4>4, <4>5, <4>6 DEF Exhausted
    <3>4. x + 1 <= x1
      BY <1>f, <1>p, <3>3, ExhaustedStep, MoreElements DEF ExhaustedCount
    <3>5. k1 <= k + 1
      BY <1>f, <1>p, <3>1, OneMoreElement DEF DeadCount
    <3>6. i1 + w1 + l1 + d1 + k1 <= 1 + f1 + x1
      BY <1>a, <1>w, <2>2, <2>3, <3>4, <3>5
    <3> QED BY <1>g, <3>6
  <2> QED BY <2>4, <2>5
<1>15. ASSUME NEW g \in Callers, LogoutFailed(g) PROVE Account'
  <2>1. /\ pc[g] = "logoutPost" /\ pc' = [pc EXCEPT ![g] = "idle"]
        /\ Dead' \subseteq Dead \cup {cache.access}
        /\ UNCHANGED <<backend, cache, cancelled, issued>>
    BY <1>15 DEF LogoutFailed, LogoutEnds, Deactivate, Dead
  <2>2. l1 + 1 <= l /\ d1 <= d
    BY <1>u, <2>1
  <2>3. NeedsGrant' => NeedsGrant
    BY <1>t, <2>1 DEF NeedsGrant, TypeOK
  <2>4. i1 = i /\ w1 <= w
    BY <1>p, <1>w, <2>1, <2>3
  <2>5. k1 <= k + 1
    BY <1>f, <1>p, <2>1, OneMoreElement DEF DeadCount
  <2>6. f1 >= f
    BY <1>15, <1>e, <1>h DEF LogoutFailed
  <2>7. i1 + w1 + l1 + d1 + k1 <= 1 + f1 + x1
    BY <1>a, <1>x, <2>2, <2>4, <2>5, <2>6
  <2> QED BY <1>g, <2>7
\* The environment's steps leave the callers alone.
<1>o. ASSUME UNCHANGED <<pc, cancelled>>
      PROVE  /\ Leaving' \subseteq Leaving /\ Doomed' \subseteq Doomed
             /\ UNCHANGED <<backend, cache>> => (NeedsGrant' => NeedsGrant)
  BY <1>o DEF Leaving, Doomed, NeedsGrant
<1>16. ASSUME NEW kind, Disrupt(kind), liveAccess' = liveAccess PROVE Account'
  <2>1. f1 = f + 1 /\ UNCHANGED <<pc, cancelled, issued>>
    BY <1>16, <1>e DEF Disrupt, callVars
  <2>2. w1 <= w + 1 /\ f1 >= f + 1
    BY <1>w, <2>1
  <2> QED BY <1>q, <1>o, <1>y, <1>16, <2>1, <2>2
<1>17. ASSUME NEW t \in Nat, RevokeAccess(t) PROVE Account'
  <2>1. f1 = f + 1 /\ UNCHANGED <<pc, cancelled, issued, backend, cache>>
    BY <1>17, <1>e DEF RevokeAccess, Disrupt, callVars
  <2>2. Dead' \subseteq Dead \cup {t}
    BY <1>17 DEF RevokeAccess, Disrupt, Dead
  <2>3. k1 <= k + 1
    BY <1>f, <1>p, <2>2, OneMoreElement DEF DeadCount
  <2>4. i1 = i /\ w1 <= w
    BY <1>o, <1>p, <1>w, <2>1
  <2>5. i1 + w1 + l1 + d1 + k1 <= 1 + f1 + x1
    BY <1>a, <1>x, <1>s, <1>o, <2>1, <2>3, <2>4
  <2> QED BY <1>g, <2>5
<1>18. ASSUME UNCHANGED vars PROVE Account'
  <2>1. UNCHANGED <<pc, cancelled, issued, liveAccess, backend, cache, disruptions>>
    BY <1>18 DEF vars, callVars, sourceVars, serverVars
  <2>2. w1 <= w + 0 /\ f1 >= f + 0
    BY <1>o, <1>p, <1>w, <2>1
  <2> QED BY <1>q, <1>o, <1>y, <2>1, <2>2
<1>19. ASSUME AccessExpires \/ RefreshExpires PROVE Account'
  BY <1>16, <1>19 DEF AccessExpires, RefreshExpires
<1>20. ASSUME NEW t \in Nat, RevokeRefresh(t) PROVE Account'
  BY <1>16, <1>20 DEF RevokeRefresh
<1> QED
  BY <1>t, CausedStepCases, <1>1, <1>2, <1>3, <1>4, <1>5, <1>6, <1>7, <1>8, <1>9, <1>10,
     <1>11, <1>12, <1>13, <1>14, <1>15, <1>17, <1>18, <1>19, <1>20
-----------------------------------------------------------------------------
(* The account over a whole behaviour.                                     *)

\* The account balances initially.
LEMMA AccountInit ==
  ASSUME IsFiniteSet(Callers), Init
  PROVE  RequestInv /\ Account
PROOF
<1>1. RequestInv
  BY DEF Init, RequestInv
<1>2. Leaving = {} /\ Doomed = {} /\ Dead = {}
  BY DEF Init, Leaving, Doomed, Dead
<1>3. LeavingCount = 0 /\ DoomedCount = 0 /\ DeadCount = 0
  BY <1>2, FS_EmptySet DEF LeavingCount, DoomedCount, DeadCount
<1>4. ExhaustedCount \in Nat
  BY TypeInit, CountedSets, FS_CardinalityType DEF ExhaustedCount
<1>5. issued = 0 /\ disruptions = 0 /\ Need \in {0, 1}
  BY DEF Init, Need
<1>6. PICK x \in Nat, w \in {0, 1} : x = ExhaustedCount /\ w = Need
  BY <1>4, <1>5
<1>7. 0 + w + 0 + 0 + 0 <= 1 + 0 + x
  OBVIOUS
<1> QED BY <1>1, <1>3, <1>5, <1>6, <1>7 DEF Account

\* The account balances in every reachable state.
LEMMA AccountInductive ==
  ASSUME IsFiniteSet(Callers), UsableReplies
  PROVE  Spec => [](IInv /\ Account)
PROOF
<1>1. Init => GInv
  BY InvInit, AccountInit DEF GInv
<1>2. GInv /\ [Next]_vars => GInv'
  BY InvStep, RequestStep, AccountStep DEF GInv, IInv
<1>3. GInv => IInv /\ Account
  BY DEF GInv
<1> QED BY <1>1, <1>2, <1>3, PTL DEF Spec

\* What the account says of the grants: a late 401 is one caller's, about one
\* dead token.
LEMMA AccountBounds ==
  ASSUME IsFiniteSet(Callers), TypeOK, Account
  PROVE  /\ Cardinality(Callers) \in Nat /\ DeadCount \in Nat
         /\ issued \in Nat /\ disruptions \in Nat
         /\ issued + DeadCount <= 1 + disruptions + Cardinality(Callers) * DeadCount
PROOF
<1>1. /\ IsFiniteSet(Leaving) /\ IsFiniteSet(Doomed)
      /\ IsFiniteSet(Dead) /\ IsFiniteSet(Exhausted)
  BY CountedSets
<1>2. /\ LeavingCount \in Nat /\ DoomedCount \in Nat
      /\ DeadCount \in Nat /\ ExhaustedCount \in Nat
      /\ Cardinality(Callers) \in Nat
  BY <1>1, FS_CardinalityType DEF LeavingCount, DoomedCount, DeadCount, ExhaustedCount
<1>3. issued \in Nat /\ disruptions \in Nat /\ Need \in Nat
  BY ConstantsOK DEF ConstantsOK, TypeOK, Need
<1>4. ExhaustedCount <= Cardinality(Callers) * DeadCount
  <2>1. /\ IsFiniteSet(Callers \X Dead)
        /\ Cardinality(Callers \X Dead) = Cardinality(Callers) * DeadCount
    BY <1>1, FS_Product DEF DeadCount
  <2>2. Exhausted \subseteq Callers \X Dead
    BY DEF Exhausted
  <2> QED BY <2>1, <2>2, MoreElements DEF ExhaustedCount
<1>5. PICK i \in Nat, w \in Nat, l \in Nat, d \in Nat, k \in Nat, f \in Nat, x \in Nat,
           n \in Nat :
        /\ i = issued /\ w = Need /\ l = LeavingCount /\ d = DoomedCount
        /\ k = DeadCount /\ f = disruptions /\ x = ExhaustedCount
        /\ n = Cardinality(Callers)
  BY <1>2, <1>3
<1>6. PICK p \in Nat : p = n * k
  OBVIOUS
<1>7. i + w + l + d + k <= 1 + f + x /\ x <= p
  BY <1>4, <1>5, <1>6 DEF Account
<1>8. i + k <= 1 + f + p
  BY <1>7
<1> QED BY <1>2, <1>3, <1>5, <1>6, <1>8

(***************************************************************************)
(* The 401 handling costs at most one grant per disruption and, for every  *)
(* token that died, one for each of the other goroutines: whatever the     *)
(* number of goroutines and the faults, InvalidateToken and the mutex of   *)
(* GetToken (selfmanaged.go:53, :95) allow no further renewals.            *)
(***************************************************************************)
THEOREM GrantsBounded ==
  ASSUME IsFiniteSet(Callers), UsableReplies
  PROVE  Spec => []GrantsPerDisruption
PROOF
<1>1. IInv /\ Account => GrantsPerDisruption
  <2> SUFFICES ASSUME IInv, Account PROVE GrantsPerDisruption
    OBVIOUS
  <2>1. PICK n \in Nat, k \in Nat, i \in Nat, f \in Nat :
          /\ n = Cardinality(Callers) /\ k = DeadCount /\ i = issued /\ f = disruptions
          /\ i + k <= 1 + f + n * k
    BY AccountBounds DEF IInv
  <2>2. (n - 1) * k = n * k - k
    OBVIOUS
  <2>3. PICK p \in Nat : p = n * k
    OBVIOUS
  <2>4. i <= 1 + f + (p - k)
    BY <2>1, <2>3
  <2> QED BY <2>1, <2>2, <2>3, <2>4 DEF GrantsPerDisruption, DeadCount, Dead
<1> QED BY <1>1, AccountInductive, PTL

(***************************************************************************)
(* SPEC.md:44 holds of a client with a single goroutine: the first call    *)
(* and each disruption cost at most one grant.                             *)
(***************************************************************************)
THEOREM OneGrantAlone ==
  ASSUME Cardinality(Callers) = 1, IsFiniteSet(Callers), UsableReplies
  PROVE  Spec => []OneGrantPerDisruption
PROOF
<1>1. IInv /\ Account => OneGrantPerDisruption
  <2> SUFFICES ASSUME IInv, Account PROVE OneGrantPerDisruption
    OBVIOUS
  <2>1. PICK k \in Nat, i \in Nat, f \in Nat :
          /\ k = DeadCount /\ i = issued /\ f = disruptions
          /\ i + k <= 1 + f + 1 * k
    BY AccountBounds DEF IInv
  <2>2. i <= 1 + f
    BY <2>1
  <2> QED BY <2>1, <2>2 DEF OneGrantPerDisruption
<1> QED BY <1>1, AccountInductive, PTL

(***************************************************************************)
(* It holds of any number of goroutines while no token dies on the server: *)
(* a local expiry, a lost or refused reply, a cancelled context lead to    *)
(* one renewal however many goroutines notice.                             *)
(***************************************************************************)
THEOREM OneGrantPerExpiry ==
  ASSUME IsFiniteSet(Callers), UsableReplies
  PROVE  Spec => []((1 .. issued) \subseteq liveAccess => OneGrantPerDisruption)
PROOF
<1>1. IInv /\ Account => ((1 .. issued) \subseteq liveAccess => OneGrantPerDisruption)
  <2> SUFFICES ASSUME IInv, Account, (1 .. issued) \subseteq liveAccess
               PROVE  OneGrantPerDisruption
    OBVIOUS
  <2>1. Dead = {}
    BY DEF Dead
  <2>2. DeadCount = 0
    BY <2>1, FS_EmptySet DEF DeadCount
  <2>3. PICK n \in Nat, i \in Nat, f \in Nat :
          /\ n = Cardinality(Callers) /\ i = issued /\ f = disruptions
          /\ i + 0 <= 1 + f + n * 0
    BY <2>2, AccountBounds DEF IInv
  <2>4. i <= 1 + f
    BY <2>3
  <2> QED BY <2>3, <2>4 DEF OneGrantPerDisruption
<1> QED BY <1>1, AccountInductive, PTL
============================================================================
