------------------------- MODULE TokenSourcesProofs -------------------------
(***************************************************************************)
(* Lemmas about the operators on token caches, which both models of the    *)
(* client rest on.                                                         *)
(***************************************************************************)
EXTENDS TokenSources, TLAPS

\* Dropping tokens from a token cache yields a token cache.
LEMMA DropTypes ==
  ASSUME NEW c \in TokenCache
  PROVE  /\ DropAccess(c) \in TokenCache
         /\ DropRefresh(c) \in TokenCache
         /\ DropBoth(c) \in TokenCache
BY DEF DropAccess, DropRefresh, DropBoth, TokenCache, Expiry, NoToken

\* So does storing a reply in it.
LEMMA CacheTypes ==
  ASSUME NEW b \in AllBackends, NEW c \in TokenCache, NEW r \in TokenResponse
  PROVE  Store(b, c, r) \in TokenCache
PROOF
<1> USE DEF TokenCache, TokenResponse, Expiry, NoToken
<1>1. SelfStore(c, r) \in TokenCache
  BY DEF SelfStore, FromNow
<1>2. OAuth2Store(r) \in TokenCache
  BY DEF OAuth2Store, FromNow
<1>3. OIDCStore(c, r) \in TokenCache
  BY DEF OIDCStore
<1> QED BY <1>1, <1>2, <1>3 DEF Store, AllBackends, SelfManaged, Keycloak, Other

\* What the cache operators do to the two tokens.
LEMMA CacheFields ==
  ASSUME NEW b \in AllBackends, NEW c \in TokenCache, NEW r \in TokenResponse
  PROVE  /\ Store(b, c, r).access = r.access
         /\ Store(b, c, r).refresh \in {c.refresh, r.refresh}
         /\ DropAccess(c).access = NoToken /\ DropAccess(c).refresh = c.refresh
         /\ DropRefresh(c).access = c.access /\ DropRefresh(c).refresh = NoToken
         /\ DropBoth(c).access = NoToken /\ DropBoth(c).refresh = NoToken
PROOF
<1> USE DEF TokenCache, TokenResponse
<1>1. /\ DropAccess(c).access = NoToken /\ DropAccess(c).refresh = c.refresh
      /\ DropRefresh(c).access = c.access /\ DropRefresh(c).refresh = NoToken
      /\ DropBoth(c).access = NoToken /\ DropBoth(c).refresh = NoToken
  BY DEF DropAccess, DropRefresh, DropBoth
<1>2. /\ SelfStore(c, r).access = r.access
      /\ SelfStore(c, r).refresh \in {c.refresh, r.refresh}
  BY DEF SelfStore
<1>3. /\ OAuth2Store(r).access = r.access
      /\ OAuth2Store(r).refresh \in {c.refresh, r.refresh}
  BY DEF OAuth2Store
<1>4. /\ OIDCStore(c, r).access = r.access
      /\ OIDCStore(c, r).refresh \in {c.refresh, r.refresh}
  BY DEF OIDCStore
<1> QED BY <1>1, <1>2, <1>3, <1>4 DEF Store, AllBackends, SelfManaged, Keycloak, Other

\* What the cache operators do to the decision "is the cached access token
\* usable": a stored reply that brings a token with time to live makes it so, a
\* dropped access token ends it, nothing else a client does to its cache counts.
LEMMA CacheUsable ==
  ASSUME NEW b \in AllBackends, NEW c \in TokenCache, NEW r \in TokenResponse
  PROVE  /\ AccessUsable(b, c) => c.access # NoToken
         /\ ~AccessUsable(b, DropAccess(c))
         /\ ~AccessUsable(b, DropBoth(c))
         /\ AccessUsable(b, DropRefresh(c)) <=> AccessUsable(b, c)
         /\ (r.access # NoToken /\ (r.expires \/ b = Other)) => AccessUsable(b, Store(b, c, r))
         /\ AccessUsable(b, [c EXCEPT !.accessExpiry = "past"]) => AccessUsable(b, c)
         /\ AccessUsable(b, [c EXCEPT !.refreshExpiry = "past"]) <=> AccessUsable(b, c)
PROOF
<1> USE DEF TokenCache, TokenResponse, Expiry, AccessUsable, SelfAccessUsable,
            OAuth2AccessUsable, OIDCAccessUsable, InFuture
<1>1. /\ AccessUsable(b, c) => c.access # NoToken
      /\ ~AccessUsable(b, DropAccess(c)) /\ ~AccessUsable(b, DropBoth(c))
      /\ AccessUsable(b, DropRefresh(c)) <=> AccessUsable(b, c)
  BY DEF DropAccess, DropBoth, DropRefresh
<1>2. /\ AccessUsable(b, [c EXCEPT !.accessExpiry = "past"]) => AccessUsable(b, c)
      /\ AccessUsable(b, [c EXCEPT !.refreshExpiry = "past"]) <=> AccessUsable(b, c)
  OBVIOUS
<1>3. ASSUME r.access # NoToken, r.expires \/ b = Other
      PROVE  AccessUsable(b, Store(b, c, r))
  <2>1. CASE b = SelfManaged
    <3>1. /\ SelfStore(c, r).access = r.access
          /\ SelfStore(c, r).accessExpiry = FromNow(r.expires)
      BY DEF SelfStore, FromNow
    <3> QED BY <1>3, <2>1, <3>1 DEF Store, FromNow, SelfManaged, Keycloak, Other
  <2>2. CASE b = Keycloak
    BY <1>3, <2>2 DEF Store, OAuth2Store, FromNow, SelfManaged, Keycloak, Other
  <2>3. CASE b = Other
    BY <1>3, <2>3 DEF Store, OIDCStore, SelfManaged, Keycloak, Other
  <2> QED BY <2>1, <2>2, <2>3 DEF AllBackends
<1> QED BY <1>1, <1>2, <1>3
=============================================================================
