---------------------------- MODULE MCClientSetup ----------------------------
(***************************************************************************)
(* An instance of ClientSetup for TLC.                                     *)
(***************************************************************************)
EXTENDS ClientSetup

TwoClients == {"c1", "c2"}

\* No option; CA material and a client certificate, each with and without a
\* base; each way to fail to load, one of them after a pool was filled; options
\* that a custom client ignores.
SomeTLSOptions ==
  { NoOptions,
    [NoOptions EXCEPT !.base = TRUE],
    [NoOptions EXCEPT !.base = TRUE, !.caFile = "good"],
    [NoOptions EXCEPT !.caFile = "good", !.caPath = "good"],
    [NoOptions EXCEPT !.base = TRUE, !.caFile = "good", !.caPath = "bad"],
    [NoOptions EXCEPT !.base = TRUE, !.caPath = "good", !.certFile = "good"],
    [NoOptions EXCEPT !.base = TRUE, !.certFile = "good", !.keyFile = "good"],
    [NoOptions EXCEPT !.certFile = "good", !.keyFile = "good"],
    [NoOptions EXCEPT !.skipVerify = TRUE, !.serverName = TRUE],
    [NoOptions EXCEPT !.caFile = "bad", !.custom = TRUE] }

Self == [type |-> "SELF_MANAGED", provider |-> "?", complete |-> TRUE,
         url |-> "none", ref |-> "relative", refOrigin |-> "none"]
KeycloakConfig == [Self EXCEPT !.type = "OAUTH2", !.provider = "KEYCLOAK", !.ref = "rooted"]
OtherConfig == [Self EXCEPT !.type = "OAUTH2", !.provider = "OTHER", !.url = "idp"]

SomeConfigs ==
  { Self,
    KeycloakConfig,
    [KeycloakConfig EXCEPT !.ref = "absolute", !.refOrigin = "idp"],
    OtherConfig,
    [OtherConfig EXCEPT !.url = "none", !.ref = "rooted"],
    [OtherConfig EXCEPT !.ref = "absolute", !.refOrigin = "tenant"],
    [OtherConfig EXCEPT !.complete = FALSE],
    [Self EXCEPT !.type = "?"] }

Origin == "kms"
ThreeOrigins == {"kms", "idp", "tenant"}
=============================================================================
