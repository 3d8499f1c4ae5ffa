----------------------------- MODULE ClientSetup -----------------------------
(***************************************************************************)
(* The life of a Client before and around its connection: NewClient with   *)
(* the WithTLS* options (tls.go, options.go), Connect with the discovery   *)
(* of the authentication configuration (client.go), and what Connect,      *)
(* Logout and the other methods do on a client that never connected, whose *)
(* Connect failed, or that connects again to a reconfigured deployment.    *)
(*                                                                         *)
(* Clients of one process may be built from one *tls.Config.  Calls of one *)
(* client are sequential here, as Connect requires; KmsClient has the      *)
(* concurrent ones.                                                        *)
(***************************************************************************)
EXTENDS TokenSources, FiniteSets

CONSTANTS
  Clients,      \* the clients of one process
  TLSOptions,   \* the combinations of WithTLS* options considered
  Configs,      \* what /configs/auth may answer
  Origins,      \* the origins of URLs: scheme and host
  KMS           \* the origin of the base URL

NoSource == [backend |-> "none", origin |-> "none"]

(***************************************************************************)
(* A file option is "unset", "good" or "bad" (unreadable, no certificate). *)
(* "base" is WithTLSConfig with a pool and a certificate of its own,       *)
(* "custom" is WithHTTPClient.                                             *)
(***************************************************************************)
FileOption == {"unset", "good", "bad"}
TLSOption == [caFile : FileOption, caPath : FileOption,
              certFile : FileOption, keyFile : FileOption,
              serverName : BOOLEAN, skipVerify : BOOLEAN,
              base : BOOLEAN, custom : BOOLEAN]

NoOptions == [caFile |-> "unset", caPath |-> "unset", certFile |-> "unset", keyFile |-> "unset",
              serverName |-> FALSE, skipVerify |-> FALSE, base |-> FALSE, custom |-> FALSE]

(***************************************************************************)
(* A discovered configuration: type and provider, whether its section is   *)
(* there and complete, the origin of the provider's own URL ("none" when   *)
(* it has no scheme), and the token endpoint or realm URL: absolute with an*)
(* origin of its own, root-relative or relative.                           *)
(***************************************************************************)
Config == [type : {"SELF_MANAGED", "OAUTH2", "?"}, provider : {"KEYCLOAK", "OTHER", "?"},
           complete : BOOLEAN, url : Origins \cup {"none"},
           ref : {"absolute", "rooted", "relative"}, refOrigin : Origins \cup {"none"}]

NoConfig == [type |-> "?", provider |-> "?", complete |-> FALSE,
             url |-> "none", ref |-> "relative", refOrigin |-> "none"]

ASSUME SetupOK ==
  /\ {"base", "system", "caller", "none"} \cap Clients = {}
  /\ TLSOptions \subseteq TLSOption
  /\ Configs \subseteq Config
  /\ \A d \in Configs : d.ref = "absolute" => d.refOrigin # "none"
  /\ "none" \notin Origins /\ KMS \in Origins

VARIABLES
  opts,       \* the options of each client
  pools,      \* the certificate pools on the heap: the caller's and one per client
  roots,      \* RootCAs of each client's TLS configuration
  arrays,     \* the backing arrays of certificates: the caller's and one per client
  certificates,  \* Certificates of each client's TLS configuration: a slice
  tlsErr,     \* c.tlsErr # nil
  source,     \* c.tokenSource: its backend and the origin of its token endpoint
  cached,     \* it holds a token
  pc,         \* where Connect is
  config,     \* history: the configuration that source was chosen from
  outcome,    \* what Connect returned last
  contacted   \* history: the endpoints that were sent a request

tlsVars == <<opts, pools, roots, arrays, certificates, tlsErr>>
vars == <<tlsVars, source, cached, pc, config, outcome, contacted>>

\* Trust anchors: those of the caller's pool, and what each client loads.
BaseAnchor == <<"base", "caller">>
Anchor == {BaseAnchor} \cup ({"file", "dir"} \X Clients)

\* An array of two certificates, and a slice of its first ones.  The caller's
\* array has room for one more, and Clone of a tls.Config shares it.
Array(first, second) == [i \in 1 .. 2 |-> IF i = 1 THEN first ELSE second]
Slice(array, len)    == [array |-> array, len |-> len]
CallerArray == Array("caller", "none")

Init ==
  /\ opts = [c \in Clients |-> NoOptions]
  /\ pools = [p \in {"base"} \cup Clients |-> IF p = "base" THEN {BaseAnchor} ELSE {}]
  /\ roots = [c \in Clients |-> "system"]
  /\ arrays = [a \in {"base"} \cup Clients |-> IF a = "base" THEN CallerArray
                                                           ELSE Array("none", "none")]
  /\ certificates = [c \in Clients |-> Slice(c, 0)]
  /\ tlsErr = [c \in Clients |-> FALSE]
  /\ source = [c \in Clients |-> NoSource]
  /\ cached = [c \in Clients |-> FALSE]
  /\ pc = [c \in Clients |-> "new"]
  /\ config = [c \in Clients |-> NoConfig]
  /\ outcome = [c \in Clients |-> "none"]
  /\ contacted = [c \in Clients |-> {}]

-----------------------------------------------------------------------------
(* NewClient and tlsOptions.build.                                         *)

hasTrustMaterial(o) == o.caFile # "unset" \/ o.caPath # "unset" \/ o.serverName
hasClientCert(o)    == o.certFile # "unset" \/ o.keyFile # "unset"
configured(o)       == o.base \/ hasTrustMaterial(o) \/ hasClientCert(o) \/ o.skipVerify

\* (wrong variant) A CA directory is only read without a CA file.
buildFailsEarly(o) ==
  \/ o.caFile = "bad" \/ (o.caFile = "unset" /\ o.caPath = "bad")
  \/ hasClientCert(o) /\ (o.certFile # "good" \/ o.keyFile # "good")

buildFails(o) ==
  \/ o.caFile = "bad" \/ o.caPath = "bad"
  \/ hasClientCert(o) /\ (o.certFile # "good" \/ o.keyFile # "good")

Loaded(c, o) == (IF o.caFile = "good" THEN {<<"file", c>>} ELSE {})
           \cup (IF o.caPath = "good" /\ o.caFile # "bad" THEN {<<"dir", c>>} ELSE {})

\* (wrong variant) The CA material is appended to the caller's own pool.
SharedCAPool(c, o) ==
  IF o.base
    THEN /\ pools' = [pools EXCEPT !["base"] = @ \cup Loaded(c, o)]
         /\ roots' = [roots EXCEPT ![c] = "base"]
    ELSE /\ pools' = [pools EXCEPT ![c] = Loaded(c, o)]
         /\ roots' = [roots EXCEPT ![c] = c]

\* The CA material is appended to a copy of the base's pool, or to a new one.
CAPool(c, o) ==
  /\ pools' = [pools EXCEPT ![c] = Loaded(c, o) \cup (IF o.base THEN pools["base"] ELSE {})]
  /\ roots' = [roots EXCEPT ![c] = c]

\* (wrong variant) The client certificate is appended to the caller's slice.
AppendInPlace(c, o) ==
  IF o.base
    THEN /\ arrays' = [arrays EXCEPT !["base"] = Array("caller", c)]
         /\ certificates' = [certificates EXCEPT ![c] = Slice("base", 2)]
    ELSE /\ arrays' = [arrays EXCEPT ![c] = Array(c, "none")]
         /\ certificates' = [certificates EXCEPT ![c] = Slice(c, 1)]

\* The client certificate is appended to a copy of the base's certificates.
AppendCertificate(c, o) ==
  /\ arrays' = [arrays EXCEPT ![c] = IF o.base THEN Array("caller", c) ELSE Array(c, "none")]
  /\ certificates' = [certificates EXCEPT ![c] = Slice(c, IF o.base THEN 2 ELSE 1)]

\* Managed: the SDK builds the http.Client and applies the TLS options.
Managed(o) == ~o.custom /\ configured(o)

NewClient(c, o) ==
  /\ pc[c] = "new"
  /\ pc' = [pc EXCEPT ![c] = "idle"]
  /\ opts' = [opts EXCEPT ![c] = o]
  /\ tlsErr' = [tlsErr EXCEPT ![c] = Managed(o) /\ buildFails(o)]
  /\ IF Managed(o) /\ (o.caFile # "unset" \/ o.caPath # "unset")
       THEN CAPool(c, o)
       ELSE /\ roots' = [roots EXCEPT ![c] = IF Managed(o) /\ o.base THEN "base" ELSE "system"]
            /\ UNCHANGED pools
  /\ IF Managed(o) /\ hasClientCert(o) /\ ~buildFails(o)
       THEN AppendCertificate(c, o)
       ELSE /\ certificates' = [certificates EXCEPT ![c] =
                                 IF Managed(o) /\ o.base THEN Slice("base", 1) ELSE Slice(c, 0)]
            /\ UNCHANGED arrays
  /\ UNCHANGED <<source, cached, config, outcome, contacted>>

-----------------------------------------------------------------------------
(* Connect.                                                                *)

\* A request leaves the client, for the public discovery or for another
\* endpoint; failingTransport lets none pass.
Contact(c, endpoint) ==
  contacted' = [contacted EXCEPT ![c] = IF tlsErr[c] THEN @ ELSE @ \cup {endpoint}]

ConnectReturns(c, o) ==
  /\ pc' = [pc EXCEPT ![c] = "idle"]
  /\ outcome' = [outcome EXCEPT ![c] = o]

\* The tlsErr check comes before anything else.
ConnectRefused(c) ==
  /\ pc[c] = "idle"
  /\ tlsErr[c]
  /\ ConnectReturns(c, "tlsError")
  /\ UNCHANGED <<tlsVars, source, cached, config, contacted>>

Connect(c) ==
  /\ pc[c] = "idle"
  /\ ~tlsErr[c]
  /\ pc' = [pc EXCEPT ![c] = "getConfig"]
  /\ Contact(c, "discovery")
  /\ UNCHANGED <<tlsVars, source, cached, config, outcome>>

GetConfigFails(c) ==
  /\ pc[c] = "getConfig"
  /\ ConnectReturns(c, "configError")
  /\ UNCHANGED <<tlsVars, source, cached, config, contacted>>

\* The origin of an IdP URL; a base without a scheme yields a URL without one.
resolveAuthURL(baseOrigin, d) ==
  IF d.ref = "absolute" THEN d.refOrigin ELSE baseOrigin

\* (wrong variant) Every relative URL is resolved against the KMS.
SourceOfAgainstKMS(d) ==
  CASE d.type = "SELF_MANAGED" -> [backend |-> SelfManaged, origin |-> KMS]
    [] d.type = "OAUTH2" /\ d.complete /\ d.provider \in {"KEYCLOAK", "OTHER"} ->
         [backend |-> IF d.provider = "OTHER" THEN Other ELSE Keycloak,
          origin |-> resolveAuthURL(KMS, d)]
    [] OTHER -> NoSource

\* (wrong variant) A token endpoint that has no origin is accepted.
SourceOfUnchecked(d) ==
  CASE d.type = "SELF_MANAGED" -> [backend |-> SelfManaged, origin |-> KMS]
    [] d.type = "OAUTH2" /\ d.complete /\ d.provider \in {"KEYCLOAK", "OTHER"} ->
         [backend |-> IF d.provider = "OTHER" THEN Other ELSE Keycloak,
          origin |-> resolveAuthURL(IF d.provider = "OTHER" THEN d.url ELSE KMS, d)]
    [] OTHER -> NoSource

\* newOAuth2FromConfig and the switch of Connect; NoSource for an error.
SourceOf(d) ==
  LET other == resolveAuthURL(d.url, d) IN
  CASE d.type = "SELF_MANAGED" -> [backend |-> SelfManaged, origin |-> KMS]
    [] d.type = "OAUTH2" /\ d.provider = "KEYCLOAK" /\ d.complete ->
         [backend |-> Keycloak, origin |-> resolveAuthURL(KMS, d)]
    [] d.type = "OAUTH2" /\ d.provider = "OTHER" /\ d.complete /\ other # "none" ->
         [backend |-> Other, origin |-> other]
    [] OTHER -> NoSource

Unsupported(c, d) ==
  /\ pc[c] = "getConfig"
  /\ SourceOf(d) = NoSource
  /\ ConnectReturns(c, "configError")
  /\ UNCHANGED <<tlsVars, source, cached, config, contacted>>

\* A token source is chosen, then asked for a first token: its cache is empty,
\* so it posts the credentials.
ChooseSource(c, d) ==
  /\ pc[c] = "getConfig"
  /\ SourceOf(d) # NoSource
  /\ config' = [config EXCEPT ![c] = d]
  /\ source' = [source EXCEPT ![c] = SourceOf(d)]
  /\ cached' = [cached EXCEPT ![c] = FALSE]
  /\ pc' = [pc EXCEPT ![c] = "getToken"]
  /\ Contact(c, "other")
  /\ UNCHANGED <<tlsVars, outcome>>

\* The token source stays assigned when the first token cannot be had.
GetTokenFails(c) ==
  /\ pc[c] = "getToken"
  /\ ConnectReturns(c, "tokenError")
  /\ UNCHANGED <<tlsVars, source, cached, config, contacted>>

GetToken(c) ==
  /\ pc[c] = "getToken"
  /\ cached' = [cached EXCEPT ![c] = TRUE]
  /\ pc' = [pc EXCEPT ![c] = "getVSlots"]
  /\ Contact(c, "other")
  /\ UNCHANGED <<tlsVars, source, config, outcome>>

\* GetVSlots may drop the token on its way to an error (a 401, then no new one).
GetVSlotsFails(c) ==
  /\ pc[c] = "getVSlots"
  /\ \E left \in BOOLEAN : cached' = [cached EXCEPT ![c] = left]
  /\ ConnectReturns(c, "vslotsError")
  /\ UNCHANGED <<tlsVars, source, config, contacted>>

GetVSlots(c) ==
  /\ pc[c] = "getVSlots"
  /\ ConnectReturns(c, "connected")
  /\ UNCHANGED <<tlsVars, source, cached, config, contacted>>

-----------------------------------------------------------------------------
(* The other methods.                                                      *)

\* An authenticated request; what becomes of the token is KmsClient's matter.
DoConnected(c) ==
  /\ pc[c] = "idle"
  /\ \E left \in BOOLEAN : cached' = [cached EXCEPT ![c] = left]
  /\ Contact(c, "other")
  /\ UNCHANGED <<tlsVars, source, pc, config, outcome>>

\* (wrong variant) The request is made whether or not there is a token source.
doUnchecked(c) == DoConnected(c)

\* "client not connected": no request is made without a token source.
do(c) == source[c] # NoSource /\ DoConnected(c)

\* selfManagedAuth.Logout posts the tokens it holds; the others only drop them.
Logout(c) ==
  /\ pc[c] = "idle"
  /\ source[c] # NoSource
  /\ IF source[c].backend = SelfManaged
       THEN /\ IF cached[c] THEN Contact(c, "other") ELSE UNCHANGED contacted
            /\ \E left \in BOOLEAN : cached' = [cached EXCEPT ![c] = @ /\ left]
       ELSE /\ cached' = [cached EXCEPT ![c] = FALSE]
            /\ UNCHANGED contacted
  /\ UNCHANGED <<tlsVars, source, pc, config, outcome>>

Next == \E c \in Clients :
  \/ \E o \in TLSOptions : NewClient(c, o)
  \/ ConnectRefused(c) \/ Connect(c) \/ GetConfigFails(c)
  \/ \E d \in Configs : Unsupported(c, d) \/ ChooseSource(c, d)
  \/ GetTokenFails(c) \/ GetToken(c) \/ GetVSlotsFails(c) \/ GetVSlots(c)
  \/ do(c) \/ Logout(c)

Spec == Init /\ [][Next]_vars

-----------------------------------------------------------------------------
\* Every variable has its type; a token endpoint always has an origin.
TypeOK ==
  /\ opts \in [Clients -> TLSOption]
  /\ pools \in [{"base"} \cup Clients -> SUBSET Anchor]
  /\ roots \in [Clients -> {"system", "base"} \cup Clients]
  /\ arrays \in [{"base"} \cup Clients -> [1 .. 2 -> Clients \cup {"caller", "none"}]]
  /\ certificates \in [Clients -> [array : {"base"} \cup Clients, len : 0 .. 2]]
  /\ tlsErr \in [Clients -> BOOLEAN] /\ cached \in [Clients -> BOOLEAN]
  /\ source \in [Clients -> {NoSource} \cup
                           [backend : AllBackends, origin : Origins]]
  /\ pc \in [Clients -> {"new", "idle", "getConfig", "getToken", "getVSlots"}]
  /\ config \in [Clients -> Config]
  /\ outcome \in [Clients -> {"none", "tlsError", "configError", "tokenError",
                              "vslotsError", "connected"}]
  /\ contacted \in [Clients -> SUBSET {"discovery", "other"}]

(***************************************************************************)
(* TLS material that cannot be loaded, whichever option names it, cannot   *)
(* be bypassed (tls.go:154): no sequence of calls makes the client send    *)
(* anything, and Connect reports nothing but the load error.               *)
(***************************************************************************)
TLSErrorIsFinal ==
  \A c \in Clients :
    LET o == opts[c]
        unloadable == \/ "bad" \in {o.caFile, o.caPath, o.certFile, o.keyFile}
                      \/ (o.certFile = "unset") # (o.keyFile = "unset")
    IN  (unloadable /\ ~o.custom) =>
          contacted[c] = {} /\ outcome[c] \in {"none", "tlsError"}

(***************************************************************************)
(* What a client trusts is what its own options say (tls.go:49): clients   *)
(* built from one *tls.Config do not see each other's anchors, and the     *)
(* caller's pool is never written, not even by a build that fails.         *)
(***************************************************************************)
TrustIsOwn ==
  /\ pools["base"] = {BaseAnchor}
  /\ \A c \in Clients :
       (pc[c] # "new" /\ Managed(opts[c]) /\ ~tlsErr[c] /\ roots[c] # "system") =>
         pools[roots[c]] = Loaded(c, opts[c]) \cup (IF opts[c].base THEN {BaseAnchor} ELSE {})

(***************************************************************************)
(* What a client presents is what its own options say (tls.go:75): the     *)
(* caller's certificates and its own, never that of another client built   *)
(* from the same *tls.Config, and the caller's array is never written,     *)
(* although the clients share it.                                          *)
(***************************************************************************)
Presented(c) ==
  {arrays[certificates[c].array][i] : i \in 1 .. certificates[c].len}

IdentityIsOwn ==
  /\ arrays["base"] = CallerArray
  /\ \A c \in Clients :
       (pc[c] # "new" /\ Managed(opts[c]) /\ ~tlsErr[c]) =>
         Presented(c) = (IF opts[c].base THEN {"caller"} ELSE {})
                        \cup (IF hasClientCert(opts[c]) THEN {c} ELSE {})

(***************************************************************************)
(* Before a Connect chose a token source, no method reaches the server     *)
(* except the public discovery (client.go:399, SPEC.md:359).               *)
(***************************************************************************)
NothingSentUnconnected ==
  \A c \in Clients : source[c] = NoSource => contacted[c] \subseteq {"discovery"}

(***************************************************************************)
(* The credentials of an OTHER deployment never go to the KMS (client.go:  *)
(* 154), whatever an earlier Connect had found, unless the configuration   *)
(* itself names its origin.                                                *)
(***************************************************************************)
CredentialsAvoidKMS ==
  \A c \in Clients :
    (source[c].backend = Other /\ source[c].origin = KMS) =>
      KMS \in {config[c].url, config[c].refOrigin}
=============================================================================
