---------------------------- MODULE TokenSources ----------------------------
(***************************************************************************)
(* The token caches of the three TokenSource implementations of the SDK:  *)
(*   selfManagedAuth (selfmanaged.go), for SELF_MANAGED deployments,       *)
(*   oauth2 (oauth2.go), for OAUTH2 deployments with a Keycloak provider,  *)
(*   oidcAuth (oidc.go), for OAUTH2 deployments with provider OTHER.       *)
(* Each has a decision "is the cached access token usable", a decision     *)
(* "may the refresh token be tried", the way a reply of the token endpoint *)
(* is stored, and what Client.Logout leaves behind.  They differ, and the  *)
(* differences are what this module records.                               *)
(*                                                                         *)
(* A token is the serial number of the grant that issued it; the empty     *)
(* string is NoToken.  An expiry time is reduced to what the code compares:*)
(* "zero" is the zero time.Time, "future" and "past" are relative to now.  *)
(***************************************************************************)
EXTENDS Naturals

NoToken == 0

SelfManaged == "SELF_MANAGED"
Keycloak    == "KEYCLOAK"
Other       == "OTHER"
AllBackends == {SelfManaged, Keycloak, Other}

Expiry == {"zero", "future", "past"}

TokenCache == [access  : Nat, accessExpiry  : Expiry,
               refresh : Nat, refreshExpiry : Expiry]

EmptyCache == [access  |-> NoToken, accessExpiry  |-> "zero",
               refresh |-> NoToken, refreshExpiry |-> "zero"]

(***************************************************************************)
(* A decoded reply of a token endpoint.  "expires" says whether expires_in *)
(* was a positive number of seconds: an absent or zero one decodes to 0.   *)
(***************************************************************************)
TokenResponse == [access  : Nat, expires        : BOOLEAN,
                  refresh : Nat, refreshExpires : BOOLEAN]

NoReply == [access  |-> NoToken, expires        |-> FALSE,
            refresh |-> NoToken, refreshExpires |-> FALSE]

\* time.Now().Before(expiry): the zero time lies in the past.
InFuture(expiry) == expiry = "future"

\* time.Now().Add(seconds): adding no time yields an instant already reached.
FromNow(positive) == IF positive THEN "future" ELSE "past"

-----------------------------------------------------------------------------
(* selfManagedAuth *)

SelfAccessUsable(c)  == c.access # NoToken /\ InFuture(c.accessExpiry)
SelfRefreshUsable(c) == c.refresh # NoToken /\ InFuture(c.refreshExpiry)

\* A reply without a refresh token keeps the one obtained at login.
SelfStore(c, r) ==
  LET renewed == [c EXCEPT !.access = r.access, !.accessExpiry = FromNow(r.expires)]
  IN  IF r.refresh = NoToken
        THEN renewed
        ELSE [renewed EXCEPT !.refresh = r.refresh,
                             !.refreshExpiry = FromNow(r.refreshExpires)]

-----------------------------------------------------------------------------
(* oauth2 *)

OAuth2AccessUsable(c)  == c.access # NoToken /\ InFuture(c.accessExpiry)
OAuth2RefreshUsable(c) == c.refresh # NoToken /\ InFuture(c.refreshExpiry)

\* The whole pair is replaced, also by a reply that carries no refresh token.
OAuth2Store(r) ==
  [access  |-> r.access,  accessExpiry  |-> FromNow(r.expires),
   refresh |-> r.refresh, refreshExpiry |-> FromNow(r.refreshExpires)]

-----------------------------------------------------------------------------
(* oidcAuth: it keeps no expiry of the refresh token. *)

\* A token without an expiry is used until the server rejects it.
OIDCAccessUsable(c) ==
  c.access # NoToken /\ (c.accessExpiry = "zero" \/ InFuture(c.accessExpiry))

OIDCRefreshUsable(c) == c.refresh # NoToken

\* The only backend that refuses a reply without a usable token property.
OIDCAccepts(r) == r.access # NoToken

OIDCStore(c, r) ==
  [c EXCEPT !.access       = r.access,
            !.accessExpiry = IF r.expires THEN "future" ELSE "zero",
            !.refresh      = IF r.refresh = NoToken THEN @ ELSE r.refresh]

-----------------------------------------------------------------------------
(* The dynamic dispatch of c.tokenSource. *)

AccessUsable(b, c) ==
  \/ b = SelfManaged /\ SelfAccessUsable(c)
  \/ b = Keycloak    /\ OAuth2AccessUsable(c)
  \/ b = Other       /\ OIDCAccessUsable(c)

RefreshUsable(b, c) ==
  \/ b = SelfManaged /\ SelfRefreshUsable(c)
  \/ b = Keycloak    /\ OAuth2RefreshUsable(c)
  \/ b = Other       /\ OIDCRefreshUsable(c)

Accepts(b, r) == b = Other => OIDCAccepts(r)

Store(b, c, r) ==
  CASE b = SelfManaged -> SelfStore(c, r)
    [] b = Keycloak    -> OAuth2Store(r)
    [] b = Other       -> OIDCStore(c, r)

\* InvalidateToken of every backend: only the access token is dropped, the
\* refresh token and both expiries stay.
DropAccess(c) == [c EXCEPT !.access = NoToken]

\* A rejected refresh grant drops the refresh token.
DropRefresh(c) == [c EXCEPT !.refresh = NoToken]

\* selfManagedAuth.Logout clears both tokens.
DropBoth(c) == [c EXCEPT !.access = NoToken, !.refresh = NoToken]
=============================================================================
