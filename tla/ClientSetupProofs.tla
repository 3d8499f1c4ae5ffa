------------------------- MODULE ClientSetupProofs -------------------------
(***************************************************************************)
(* Proofs, for every set of clients, option combinations and discovered    *)
(* configurations, of the safety properties of ClientSetup.                *)
(***************************************************************************)
EXTENDS ClientSetup, TLAPS

-----------------------------------------------------------------------------
(* The inductive invariant.                                                *)

\* NewClient has run on c.
Built(c) == pc[c] # "new"

\* A client that was not built did nothing.  tlsErr is set by NewClient alone,
\* and a client that has it is stopped before its first request.
TLSInv ==
  \A c \in Clients :
    /\ ~Built(c) => opts[c] = NoOptions
    /\ Built(c) => (tlsErr[c] <=> Managed(opts[c]) /\ buildFails(opts[c]))
    /\ ~Built(c) \/ tlsErr[c] =>
         pc[c] \in {"new", "idle"} /\ contacted[c] = {} /\ outcome[c] \in {"none", "tlsError"}

\* The pool of each client is its own: only its NewClient writes it.
TrustInv ==
  /\ pools["base"] = {BaseAnchor}
  /\ \A c \in Clients :
       Built(c) /\ Managed(opts[c]) =>
         \/ roots[c] = "system"
         \/ /\ roots[c] = "base" /\ opts[c].base
            /\ opts[c].caFile = "unset" /\ opts[c].caPath = "unset"
         \/ /\ roots[c] = c
            /\ pools[c] = Loaded(c, opts[c]) \cup (IF opts[c].base THEN {BaseAnchor} ELSE {})

\* So is the array that each client appends its certificate to.
CertInv ==
  /\ arrays["base"] = CallerArray
  /\ \A c \in Clients :
       Built(c) /\ Managed(opts[c]) /\ ~buildFails(opts[c]) =>
         IF hasClientCert(opts[c])
           THEN IF opts[c].base
                  THEN arrays[c] = Array("caller", c) /\ certificates[c] = Slice(c, 2)
                  ELSE arrays[c] = Array(c, "none") /\ certificates[c] = Slice(c, 1)
           ELSE certificates[c] = IF opts[c].base THEN Slice("base", 1) ELSE Slice(c, 0)

\* A token source is the one its configuration calls for, and there is one
\* wherever a request other than the discovery was sent.
SourceInv ==
  \A c \in Clients :
    /\ source[c] # NoSource => source[c] = SourceOf(config[c])
    /\ pc[c] \in {"getToken", "getVSlots"} \/ outcome[c] = "connected" => source[c] # NoSource
    /\ source[c] = NoSource => contacted[c] \subseteq {"discovery"}

-----------------------------------------------------------------------------
(* What the operators compute.                                             *)

\* A token source of an accepted configuration has a token endpoint with an
\* origin: one of the KMS, or one the configuration names.
LEMMA SourceHasOrigin ==
  ASSUME NEW d \in Configs, SourceOf(d) # NoSource
  PROVE  SourceOf(d) \in [backend : AllBackends, origin : Origins]
PROOF
<1> USE SetupOK DEF SetupOK, AllBackends, SelfManaged, Keycloak, Other
<1>1. d \in Config /\ KMS \in Origins /\ (d.ref = "absolute" => d.refOrigin # "none")
  OBVIOUS
<1>2. {d.url, d.refOrigin} \subseteq Origins \cup {"none"}
  BY <1>1 DEF Config
<1>3. CASE d.type = "SELF_MANAGED"
  BY <1>1, <1>3 DEF SourceOf
<1>4. CASE d.type = "OAUTH2" /\ d.provider = "KEYCLOAK" /\ d.complete
  <2>1. resolveAuthURL(KMS, d) \in Origins
    BY <1>1, <1>2 DEF resolveAuthURL
  <2> QED BY <1>4, <2>1 DEF SourceOf
<1>5. CASE d.type = "OAUTH2" /\ d.provider = "OTHER" /\ d.complete
           /\ resolveAuthURL(d.url, d) # "none"
  <2>1. resolveAuthURL(d.url, d) \in Origins
    BY <1>1, <1>2, <1>5 DEF resolveAuthURL
  <2> QED BY <1>5, <2>1 DEF SourceOf
<1> QED BY <1>3, <1>4, <1>5 DEF SourceOf

\* Options whose material cannot be loaded make build() fail.
LEMMA UnloadableFails ==
  ASSUME NEW o \in TLSOption, ~o.custom,
         \/ "bad" \in {o.caFile, o.caPath, o.certFile, o.keyFile}
         \/ (o.certFile = "unset") # (o.keyFile = "unset")
  PROVE  Managed(o) /\ buildFails(o)
PROOF
  BY DEF TLSOption, FileOption, Managed, configured, hasTrustMaterial, hasClientCert, buildFails

\* What a client loads are anchors.
LEMMA LoadedAnchors ==
  ASSUME NEW c \in Clients, NEW o \in TLSOption
  PROVE  Loaded(c, o) \subseteq Anchor
PROOF
  BY DEF Loaded, Anchor

\* What NewClient does with the certificates keeps their types.
LEMMA CertificateTypes ==
  ASSUME TypeOK, NEW c \in Clients, NEW o \in TLSOptions, NewClient(c, o)
  PROVE  /\ arrays' \in [{"base"} \cup Clients -> [1 .. 2 -> Clients \cup {"caller", "none"}]]
         /\ certificates' \in [Clients -> [array : {"base"} \cup Clients, len : 0 .. 2]]
PROOF
<1>1. ASSUME NEW n \in 0 .. 2, NEW a \in {"base"} \cup Clients
      PROVE  Slice(a, n) \in [array : {"base"} \cup Clients, len : 0 .. 2]
  BY DEF Slice
<1>2. ASSUME NEW x \in Clients \cup {"caller", "none"}, NEW y \in Clients \cup {"caller", "none"}
      PROVE  Array(x, y) \in [1 .. 2 -> Clients \cup {"caller", "none"}]
  BY DEF Array
<1>3. \/ UNCHANGED arrays
      \/ \E x, y \in Clients \cup {"caller", "none"} : arrays' = [arrays EXCEPT ![c] = Array(x, y)]
  BY DEF NewClient, AppendCertificate
<1>4. \E a \in {"base"} \cup Clients, n \in 0 .. 2 :
        certificates' = [certificates EXCEPT ![c] = Slice(a, n)]
  <2>1. \E n \in {1, 2} : AppendCertificate(c, o) => certificates' = [certificates EXCEPT ![c] = Slice(c, n)]
    BY DEF AppendCertificate
  <2>2. 0 \in 0 .. 2 /\ 1 \in 0 .. 2 /\ 2 \in 0 .. 2
    OBVIOUS
  <2>3. CASE AppendCertificate(c, o)
    BY <2>1, <2>2, <2>3
  <2>4. CASE certificates' = [certificates EXCEPT ![c] =
                                IF Managed(o) /\ o.base THEN Slice("base", 1) ELSE Slice(c, 0)]
    BY <2>2, <2>4
  <2> QED BY <2>3, <2>4 DEF NewClient
<1>5. arrays' \in [{"base"} \cup Clients -> [1 .. 2 -> Clients \cup {"caller", "none"}]]
  <2>1. CASE UNCHANGED arrays
    BY <2>1 DEF TypeOK
  <2>2. CASE ~UNCHANGED arrays
    <3>1. PICK ar \in [1 .. 2 -> Clients \cup {"caller", "none"}] :
                 arrays' = [arrays EXCEPT ![c] = ar]
      BY <1>2, <1>3, <2>2
    <3> QED BY <3>1 DEF TypeOK
  <2> QED BY <2>1, <2>2
<1>6. certificates' \in [Clients -> [array : {"base"} \cup Clients, len : 0 .. 2]]
  <2>1. PICK sl \in [array : {"base"} \cup Clients, len : 0 .. 2] :
               certificates' = [certificates EXCEPT ![c] = sl]
    BY <1>1, <1>4
  <2> QED BY <2>1 DEF TypeOK
<1> QED BY <1>5, <1>6

-----------------------------------------------------------------------------
(* Types.                                                                  *)

\* Every action, and stuttering, keeps the types of TypeOK.
LEMMA TypeStep == TypeOK /\ [Next]_vars => TypeOK'
PROOF
<1> SUFFICES ASSUME TypeOK, [Next]_vars PROVE TypeOK'
  OBVIOUS
<1> USE SetupOK DEF SetupOK, TypeOK, tlsVars
<1>1. ASSUME NEW c \in Clients, NEW o \in TLSOptions, NewClient(c, o) PROVE TypeOK'
  <2>1. /\ o \in TLSOption /\ Loaded(c, o) \subseteq Anchor
        /\ arrays' \in [{"base"} \cup Clients -> [1 .. 2 -> Clients \cup {"caller", "none"}]]
        /\ certificates' \in [Clients -> [array : {"base"} \cup Clients, len : 0 .. 2]]
    BY <1>1, LoadedAnchors, CertificateTypes
  <2>2. CASE CAPool(c, o)
    <3>1. pools' \in [{"base"} \cup Clients -> SUBSET Anchor]
      BY <2>1, <2>2 DEF CAPool
    <3>2. roots' \in [Clients -> {"system", "base"} \cup Clients]
      BY <2>2 DEF CAPool
    <3> QED BY <1>1, <2>1, <3>1, <3>2 DEF NewClient
  <2>3. CASE UNCHANGED pools /\ roots' = [roots EXCEPT ![c] =
                                IF Managed(o) /\ o.base THEN "base" ELSE "system"]
    BY <1>1, <2>1, <2>3 DEF NewClient
  <2> QED BY <1>1, <2>2, <2>3 DEF NewClient
<1>2. ASSUME NEW c \in Clients,
             \/ ConnectRefused(c) \/ GetConfigFails(c)
             \/ GetTokenFails(c) \/ GetVSlotsFails(c) \/ GetVSlots(c)
             \/ \E d \in Configs : Unsupported(c, d)
      PROVE  TypeOK'
  BY <1>2 DEF ConnectRefused, GetConfigFails, GetTokenFails, GetVSlotsFails, GetVSlots,
              Unsupported, ConnectReturns
<1>3. ASSUME NEW c \in Clients, Connect(c) \/ GetToken(c) \/ do(c) \/ Logout(c) PROVE TypeOK'
  <2>1. ASSUME NEW e \in {"discovery", "other"}, Contact(c, e)
        PROVE  contacted' \in [Clients -> SUBSET {"discovery", "other"}]
    BY <2>1 DEF Contact
  <2>2. contacted' \in [Clients -> SUBSET {"discovery", "other"}]
    BY <1>3, <2>1 DEF Connect, GetToken, do, DoConnected, Logout
  <2>3. /\ UNCHANGED <<tlsVars, source, config, outcome>>
        /\ pc' \in [Clients -> {"new", "idle", "getConfig", "getToken", "getVSlots"}]
        /\ cached' \in [Clients -> BOOLEAN]
    <3>1. CASE Connect(c) \/ GetToken(c)
      BY <3>1 DEF Connect, GetToken
    <3>2. CASE do(c)
      <4>1. PICK left \in BOOLEAN : cached' = [cached EXCEPT ![c] = left]
        BY <3>2 DEF do, DoConnected
      <4> QED BY <3>2, <4>1 DEF do, DoConnected
    <3>3. CASE Logout(c)
      <4>1. PICK left \in BOOLEAN : cached' = [cached EXCEPT ![c] = left]
        BY <3>3 DEF Logout
      <4> QED BY <3>3, <4>1 DEF Logout
    <3> QED BY <1>3, <3>1, <3>2, <3>3
  <2> QED BY <2>2, <2>3
<1>4. ASSUME NEW c \in Clients, NEW d \in Configs, ChooseSource(c, d) PROVE TypeOK'
  <2>1. SourceOf(d) \in [backend : AllBackends, origin : Origins]
    BY <1>4, SourceHasOrigin DEF ChooseSource
  <2>2. contacted' \in [Clients -> SUBSET {"discovery", "other"}]
    BY <1>4 DEF ChooseSource, Contact
  <2> QED BY <1>4, <2>1, <2>2 DEF ChooseSource
<1>5. CASE UNCHANGED vars
  BY <1>5 DEF vars
<1> QED BY <1>1, <1>2, <1>3, <1>4, <1>5 DEF Next

\* The initial states have the types of TypeOK.
LEMMA TypeInit == Init => TypeOK
PROOF
<1> SUFFICES ASSUME Init PROVE TypeOK
  OBVIOUS
<1> USE SetupOK DEF SetupOK, Init, TypeOK
<1>a. NoOptions \in TLSOption
  BY DEF NoOptions, TLSOption, FileOption
<1>b. NoConfig \in Config
  BY DEF NoConfig, Config
<1>c. BaseAnchor \in Anchor
  BY DEF BaseAnchor, Anchor
<1>1. NoOptions \in TLSOption /\ NoConfig \in Config /\ BaseAnchor \in Anchor
  BY <1>a, <1>b, <1>c
<1>3. arrays \in [{"base"} \cup Clients -> [1 .. 2 -> Clients \cup {"caller", "none"}]]
  BY DEF CallerArray, Array
<1>4. certificates \in [Clients -> [array : {"base"} \cup Clients, len : 0 .. 2]]
  BY DEF Slice
<1>2. pools \in [{"base"} \cup Clients -> SUBSET Anchor]
  BY <1>1
<1> QED BY <1>1, <1>2, <1>3, <1>4

\* Every reachable state is well typed, and no token endpoint lacks an origin.
THEOREM TypeCorrect == Spec => []TypeOK
PROOF
  BY TypeInit, TypeStep, PTL DEF Spec

-----------------------------------------------------------------------------
(* The invariant is inductive.                                             *)

\* What an action on client c leaves of every other client.
LEMMA OthersUnchanged ==
  ASSUME TypeOK, NEW c \in Clients,
         \/ \E o \in TLSOptions : NewClient(c, o)
         \/ ConnectRefused(c) \/ Connect(c) \/ GetConfigFails(c)
         \/ \E d \in Configs : Unsupported(c, d) \/ ChooseSource(c, d)
         \/ GetTokenFails(c) \/ GetToken(c) \/ GetVSlotsFails(c) \/ GetVSlots(c)
         \/ do(c) \/ Logout(c),
         NEW e \in Clients, e # c
  PROVE  /\ opts'[e] = opts[e] /\ roots'[e] = roots[e] /\ pools'[e] = pools[e]
         /\ arrays'[e] = arrays[e] /\ certificates'[e] = certificates[e]
         /\ tlsErr'[e] = tlsErr[e] /\ source'[e] = source[e] /\ pc'[e] = pc[e]
         /\ config'[e] = config[e] /\ outcome'[e] = outcome[e]
         /\ contacted'[e] = contacted[e]
PROOF
<1> USE DEF TypeOK, tlsVars, Contact, ConnectReturns
<1>1. ASSUME NEW o \in TLSOptions, NewClient(c, o)
      PROVE  opts'[e] = opts[e] /\ roots'[e] = roots[e] /\ pools'[e] = pools[e]
             /\ arrays'[e] = arrays[e] /\ certificates'[e] = certificates[e]
             /\ tlsErr'[e] = tlsErr[e] /\ pc'[e] = pc[e]
  BY <1>1 DEF NewClient, CAPool, AppendCertificate
<1>2. CASE \E o \in TLSOptions : NewClient(c, o)
  BY <1>1, <1>2 DEF NewClient
<1>3. CASE \/ ConnectRefused(c) \/ Connect(c) \/ GetConfigFails(c)
           \/ \E d \in Configs : Unsupported(c, d)
           \/ GetTokenFails(c) \/ GetToken(c) \/ GetVSlotsFails(c) \/ GetVSlots(c)
  BY <1>3 DEF ConnectRefused, Connect, GetConfigFails, Unsupported, GetTokenFails, GetToken,
              GetVSlotsFails, GetVSlots
<1>4. CASE do(c) \/ Logout(c) \/ \E d \in Configs : ChooseSource(c, d)
  BY <1>4 DEF do, DoConnected, Logout, ChooseSource
<1> QED BY <1>2, <1>3, <1>4

\* TLSInv is preserved.
LEMMA TLSStep == TypeOK /\ TLSInv /\ SourceInv /\ [Next]_vars => TLSInv'
PROOF
<1> SUFFICES ASSUME TypeOK, TLSInv, SourceInv, [Next]_vars PROVE TLSInv'
  OBVIOUS
<1> USE DEF Built
<1> DEFINE Part(c) ==
      /\ ~Built(c) => opts[c] = NoOptions
      /\ Built(c) => (tlsErr[c] <=> Managed(opts[c]) /\ buildFails(opts[c]))
      /\ ~Built(c) \/ tlsErr[c] =>
           pc[c] \in {"new", "idle"} /\ contacted[c] = {} /\ outcome[c] \in {"none", "tlsError"}
<1>1. SUFFICES ASSUME NEW c \in Clients, Part(c), Next PROVE Part(c)'
  BY DEF TLSInv, vars, tlsVars
<1>2. PICK a \in Clients :
         \/ \E o \in TLSOptions : NewClient(a, o)
         \/ ConnectRefused(a) \/ Connect(a) \/ GetConfigFails(a)
         \/ \E d \in Configs : Unsupported(a, d) \/ ChooseSource(a, d)
         \/ GetTokenFails(a) \/ GetToken(a) \/ GetVSlotsFails(a) \/ GetVSlots(a)
         \/ do(a) \/ Logout(a)
  BY <1>1 DEF Next
<1>3. CASE a # c
  BY <1>1, <1>2, <1>3, OthersUnchanged
<1>4. CASE a = c
  <2> USE DEF TypeOK, tlsVars
  <2>1. CASE \E o \in TLSOptions : NewClient(c, o)
    <3>1. PICK o \in TLSOptions : NewClient(c, o)
      BY <2>1
    <3>2. /\ pc[c] = "new" /\ pc'[c] = "idle" /\ opts'[c] = o
          /\ contacted' = contacted /\ outcome' = outcome
      BY <3>1 DEF NewClient
    <3>3. tlsErr'[c] = (Managed(o) /\ buildFails(o))
      BY <3>1 DEF NewClient
    <3> QED BY <1>1, <3>2, <3>3
  <2>2. CASE ConnectRefused(c)
    BY <1>1, <2>2 DEF ConnectRefused, ConnectReturns
  <2>3. CASE \/ Connect(c) \/ GetConfigFails(c) \/ GetTokenFails(c) \/ GetToken(c)
             \/ GetVSlotsFails(c) \/ GetVSlots(c)
             \/ \E d \in Configs : Unsupported(c, d) \/ ChooseSource(c, d)
    BY <1>1, <2>3 DEF Connect, GetConfigFails, GetTokenFails, GetToken, GetVSlotsFails,
                      GetVSlots, Unsupported, ChooseSource, ConnectReturns, Contact
  <2>4. CASE do(c) \/ Logout(c)
    BY <1>1, <2>4 DEF do, DoConnected, Logout, Contact
  <2> QED BY <1>2, <1>4, <2>1, <2>2, <2>3, <2>4
<1> QED BY <1>3, <1>4

\* Only NewClient touches the TLS settings or makes a client built.
LEMMA SettingsKept ==
  ASSUME TypeOK, [Next]_vars, ~\E c \in Clients, o \in TLSOptions : NewClient(c, o)
  PROVE  UNCHANGED tlsVars /\ \A c \in Clients : Built(c)' <=> Built(c)
PROOF
<1> USE DEF Built
<1>1. ASSUME NEW c \in Clients,
             \/ ConnectRefused(c) \/ Connect(c) \/ GetConfigFails(c)
             \/ \E d \in Configs : Unsupported(c, d) \/ ChooseSource(c, d)
             \/ GetTokenFails(c) \/ GetToken(c) \/ GetVSlotsFails(c) \/ GetVSlots(c)
             \/ do(c) \/ Logout(c)
      PROVE  UNCHANGED tlsVars /\ \A e \in Clients : Built(e)' <=> Built(e)
  <2>1. UNCHANGED tlsVars
    BY <1>1 DEF ConnectRefused, Connect, GetConfigFails, Unsupported, ChooseSource,
                GetTokenFails, GetToken, GetVSlotsFails, GetVSlots, do, DoConnected, Logout
  <2>2. /\ pc[c] # "new"
        /\ pc' = pc \/ \E at \in {"idle", "getConfig", "getToken", "getVSlots"} :
                         pc' = [pc EXCEPT ![c] = at]
    BY <1>1 DEF ConnectRefused, Connect, GetConfigFails, Unsupported, ChooseSource,
                GetTokenFails, GetToken, GetVSlotsFails, GetVSlots, do, DoConnected, Logout,
                ConnectReturns
  <2>3. \A e \in Clients : Built(e)' <=> Built(e)
    BY <2>2 DEF TypeOK
  <2> QED BY <2>1, <2>3
<1>2. CASE UNCHANGED vars
  BY <1>2 DEF vars
<1> QED BY <1>1, <1>2 DEF Next

\* TrustInv is preserved.
LEMMA TrustStep == TypeOK /\ TrustInv /\ [Next]_vars => TrustInv'
PROOF
<1> SUFFICES ASSUME TypeOK, TrustInv, [Next]_vars PROVE TrustInv'
  OBVIOUS
<1> USE SetupOK DEF SetupOK, Built
<1>1. ASSUME NEW c \in Clients, NEW o \in TLSOptions, NewClient(c, o) PROVE TrustInv'
  <2> USE <1>1 DEF TypeOK
  <2>1. /\ c # "base" /\ c # "system" /\ pc' = [pc EXCEPT ![c] = "idle"]
        /\ opts' = [opts EXCEPT ![c] = o] /\ o \in TLSOption
    BY DEF NewClient
  <2>2. CASE Managed(o) /\ (o.caFile # "unset" \/ o.caPath # "unset")
    <3>1. /\ pools' = [pools EXCEPT ![c] = Loaded(c, o) \cup (IF o.base THEN pools["base"] ELSE {})]
          /\ roots' = [roots EXCEPT ![c] = c]
      BY <2>2 DEF NewClient, CAPool
    <3>2. /\ pools'["base"] = {BaseAnchor} /\ roots'[c] = c
          /\ pools'[c] = Loaded(c, o) \cup (IF o.base THEN {BaseAnchor} ELSE {})
      BY <2>1, <3>1 DEF TrustInv
    <3> QED BY <2>1, <3>1, <3>2 DEF TrustInv
  <2>3. CASE ~(Managed(o) /\ (o.caFile # "unset" \/ o.caPath # "unset"))
    <3>1. /\ roots' = [roots EXCEPT ![c] = IF Managed(o) /\ o.base THEN "base" ELSE "system"]
          /\ pools' = pools
      BY <2>3 DEF NewClient
    <3> QED BY <2>1, <2>3, <3>1 DEF TrustInv
  <2> QED BY <2>2, <2>3
<1>2. CASE ~\E c \in Clients, o \in TLSOptions : NewClient(c, o)
  BY <1>2, SettingsKept DEF TrustInv, tlsVars
<1> QED BY <1>1, <1>2

\* CertInv is preserved: a client appends to its own copy, so neither the
\* caller's array nor that of an earlier client changes.
LEMMA CertStep == TypeOK /\ CertInv /\ [Next]_vars => CertInv'
PROOF
<1> SUFFICES ASSUME TypeOK, CertInv, [Next]_vars PROVE CertInv'
  OBVIOUS
<1> DEFINE Owned(e) ==
      Built(e) /\ Managed(opts[e]) /\ ~buildFails(opts[e]) =>
        IF hasClientCert(opts[e])
          THEN IF opts[e].base
                 THEN arrays[e] = Array("caller", e) /\ certificates[e] = Slice(e, 2)
                 ELSE arrays[e] = Array(e, "none") /\ certificates[e] = Slice(e, 1)
          ELSE certificates[e] = IF opts[e].base THEN Slice("base", 1) ELSE Slice(e, 0)
<1>0. arrays["base"] = CallerArray /\ \A e \in Clients : Owned(e)
  BY DEF CertInv
<1>1. ASSUME NEW c \in Clients, NEW o \in TLSOptions, NewClient(c, o) PROVE CertInv'
  <2>1. arrays'["base"] = CallerArray
    BY <1>0, <1>1, SetupOK DEF SetupOK, NewClient, AppendCertificate, TypeOK
  <2>2. ASSUME NEW e \in Clients, e # c PROVE Owned(e)'
    <3>1. /\ opts'[e] = opts[e] /\ arrays'[e] = arrays[e]
          /\ certificates'[e] = certificates[e] /\ pc'[e] = pc[e]
      BY <1>1, <2>2, OthersUnchanged
    <3> QED BY <1>0, <3>1 DEF Built
  <2>3. Owned(c)'
    <3>1. opts'[c] = o
      BY <1>1 DEF NewClient, TypeOK
    <3>2. CASE Managed(o) /\ hasClientCert(o) /\ ~buildFails(o)
      <4>1. AppendCertificate(c, o)
        BY <1>1, <3>2 DEF NewClient
      <4>2. /\ arrays'[c] = IF o.base THEN Array("caller", c) ELSE Array(c, "none")
            /\ certificates'[c] = Slice(c, IF o.base THEN 2 ELSE 1)
        BY <4>1 DEF AppendCertificate, TypeOK
      <4> QED BY <3>1, <3>2, <4>2
    <3>3. CASE ~(Managed(o) /\ hasClientCert(o) /\ ~buildFails(o))
      <4>1. certificates'[c] = IF Managed(o) /\ o.base THEN Slice("base", 1) ELSE Slice(c, 0)
        BY <1>1, <3>3 DEF NewClient, TypeOK
      <4> QED BY <3>1, <3>3, <4>1
    <3> QED BY <3>2, <3>3
  <2> QED BY <2>1, <2>2, <2>3 DEF CertInv
<1>2. CASE ~\E c \in Clients, o \in TLSOptions : NewClient(c, o)
  <2>1. /\ UNCHANGED <<opts, arrays, certificates>>
        /\ \A e \in Clients : Built(e)' <=> Built(e)
    BY <1>2, SettingsKept DEF tlsVars
  <2> HIDE DEF Owned
  <2>2. ASSUME NEW e \in Clients PROVE Owned(e)'
    BY <1>0, <2>1 DEF Owned
  <2> QED BY <1>0, <2>1, <2>2 DEF CertInv, Owned
<1> QED BY <1>1, <1>2

\* SourceInv is preserved.
LEMMA SourceStep == TypeOK /\ TLSInv /\ SourceInv /\ [Next]_vars => SourceInv'
PROOF
<1> SUFFICES ASSUME TypeOK, TLSInv, SourceInv, [Next]_vars PROVE SourceInv'
  OBVIOUS
<1> DEFINE Part(c) ==
      /\ source[c] # NoSource => source[c] = SourceOf(config[c])
      /\ pc[c] \in {"getToken", "getVSlots"} \/ outcome[c] = "connected" => source[c] # NoSource
      /\ source[c] = NoSource => contacted[c] \subseteq {"discovery"}
<1>1. SUFFICES ASSUME NEW c \in Clients, Part(c), Next PROVE Part(c)'
  BY DEF SourceInv, vars
<1>2. PICK a \in Clients :
         \/ \E o \in TLSOptions : NewClient(a, o)
         \/ ConnectRefused(a) \/ Connect(a) \/ GetConfigFails(a)
         \/ \E d \in Configs : Unsupported(a, d) \/ ChooseSource(a, d)
         \/ GetTokenFails(a) \/ GetToken(a) \/ GetVSlotsFails(a) \/ GetVSlots(a)
         \/ do(a) \/ Logout(a)
  BY <1>1 DEF Next
<1>3. CASE a # c
  BY <1>1, <1>2, <1>3, OthersUnchanged
<1>4. CASE a = c
  <2> USE DEF TypeOK, tlsVars
  <2>1. CASE \E o \in TLSOptions : NewClient(c, o)
    BY <1>1, <2>1 DEF NewClient
  <2>2. CASE \/ ConnectRefused(c) \/ GetConfigFails(c) \/ GetTokenFails(c)
             \/ GetVSlotsFails(c) \/ GetVSlots(c)
             \/ \E d \in Configs : Unsupported(c, d)
    BY <1>1, <2>2 DEF ConnectRefused, GetConfigFails, GetTokenFails, GetVSlotsFails, GetVSlots,
                      Unsupported, ConnectReturns
  <2>3. CASE Connect(c) \/ GetToken(c)
    BY <1>1, <2>3 DEF Connect, GetToken, Contact
  <2>4. CASE \E d \in Configs : ChooseSource(c, d)
    <3>1. PICK d \in Configs : ChooseSource(c, d)
      BY <2>4
    <3>2. source'[c] = SourceOf(d) /\ SourceOf(d) # NoSource /\ config'[c] = d
      BY <3>1 DEF ChooseSource
    <3> QED BY <3>2
  <2>5. CASE do(c) \/ Logout(c)
    BY <1>1, <2>5 DEF do, DoConnected, Logout, Contact
  <2> QED BY <1>2, <1>4, <2>1, <2>2, <2>3, <2>4, <2>5
<1> QED BY <1>3, <1>4

Inv == TypeOK /\ TLSInv /\ TrustInv /\ CertInv /\ SourceInv

\* Inv holds in every reachable state.
LEMMA Inductive == Spec => []Inv
PROOF
<1>1. Init => Inv
  <2>1. Init => TLSInv
    BY DEF Init, TLSInv, Built
  <2>2. Init => TrustInv
    BY DEF Init, TrustInv, Built
  <2>3. Init => SourceInv
    BY DEF Init, SourceInv
  <2>4. Init => CertInv
    BY DEF Init, CertInv, Built
  <2> QED BY <2>1, <2>2, <2>3, <2>4, TypeInit DEF Inv
<1>2. Inv /\ [Next]_vars => Inv'
  BY TypeStep, TLSStep, TrustStep, CertStep, SourceStep DEF Inv
<1> QED BY <1>1, <1>2, PTL DEF Spec

-----------------------------------------------------------------------------
(* The safety properties.                                                  *)

\* No sequence of calls gets a request out of a client whose TLS material
\* could not be loaded, whichever option named it (tls.go:154).
THEOREM TLSErrorFinal == Spec => []TLSErrorIsFinal
PROOF
<1>1. Inv => TLSErrorIsFinal
  <2> SUFFICES ASSUME Inv, NEW c \in Clients, ~opts[c].custom,
                      \/ "bad" \in {opts[c].caFile, opts[c].caPath,
                                    opts[c].certFile, opts[c].keyFile}
                      \/ (opts[c].certFile = "unset") # (opts[c].keyFile = "unset")
               PROVE  contacted[c] = {} /\ outcome[c] \in {"none", "tlsError"}
    BY DEF TLSErrorIsFinal
  <2>1. opts[c] \in TLSOption
    BY DEF Inv, TypeOK
  <2>2. Managed(opts[c]) /\ buildFails(opts[c])
    BY <2>1, UnloadableFails
  <2> QED BY <2>2 DEF Inv, TLSInv
<1> QED BY <1>1, Inductive, PTL

\* Clients built from one tls.Config do not see each other's anchors, and the
\* caller's pool is never written (tls.go:49).
THEOREM TrustOwn == Spec => []TrustIsOwn
PROOF
<1>1. Inv => TrustIsOwn
  <2> SUFFICES ASSUME Inv PROVE TrustIsOwn
    OBVIOUS
  <2> SUFFICES ASSUME NEW c \in Clients,
                      Built(c), Managed(opts[c]), ~tlsErr[c], roots[c] # "system"
               PROVE  pools[roots[c]] =
                        Loaded(c, opts[c]) \cup (IF opts[c].base THEN {BaseAnchor} ELSE {})
    BY DEF Inv, TrustInv, TrustIsOwn, Built
  <2>1. CASE roots[c] = "base" /\ opts[c].base
             /\ opts[c].caFile = "unset" /\ opts[c].caPath = "unset"
    BY <2>1 DEF Inv, TrustInv, Loaded
  <2> QED BY <2>1 DEF Inv, TrustInv
<1> QED BY <1>1, Inductive, PTL

\* Clients built from one tls.Config present the caller's certificates and
\* their own, not each other's, although they share its array (tls.go:75).
THEOREM IdentityOwn == Spec => []IdentityIsOwn
PROOF
<1>1. Inv => IdentityIsOwn
  <2> SUFFICES ASSUME Inv PROVE IdentityIsOwn
    OBVIOUS
  <2>0. arrays["base"] = CallerArray
    BY DEF Inv, CertInv
  <2> SUFFICES ASSUME NEW c \in Clients, Built(c), Managed(opts[c]), ~tlsErr[c]
               PROVE  Presented(c) = (IF opts[c].base THEN {"caller"} ELSE {})
                                     \cup (IF hasClientCert(opts[c]) THEN {c} ELSE {})
    BY <2>0 DEF IdentityIsOwn, Built
  <2>1. ~buildFails(opts[c])
    BY DEF Inv, TLSInv
  <2>2. ASSUME NEW a, NEW n \in 0 .. 2, certificates[c] = Slice(a, n)
        PROVE  Presented(c) = {arrays[a][i] : i \in 1 .. n}
    BY <2>2 DEF Presented, Slice
  <2>3. ASSUME NEW x, NEW y
        PROVE  /\ {Array(x, y)[i] : i \in 1 .. 0} = {}
               /\ {Array(x, y)[i] : i \in 1 .. 1} = {x}
               /\ {Array(x, y)[i] : i \in 1 .. 2} = {x, y}
    BY DEF Array
  <2>4. \A a : {arrays[a][i] : i \in 1 .. 0} = {}
    OBVIOUS
  <2>5. CASE hasClientCert(opts[c]) /\ opts[c].base
    <3>1. arrays[c] = Array("caller", c) /\ certificates[c] = Slice(c, 2)
      BY <2>1, <2>5 DEF Inv, CertInv
    <3> QED BY <2>2, <2>3, <2>5, <3>1
  <2>6. CASE hasClientCert(opts[c]) /\ ~opts[c].base
    <3>1. arrays[c] = Array(c, "none") /\ certificates[c] = Slice(c, 1)
      BY <2>1, <2>6 DEF Inv, CertInv
    <3> QED BY <2>2, <2>3, <2>6, <3>1
  <2>7. CASE ~hasClientCert(opts[c])
    <3>1. certificates[c] = IF opts[c].base THEN Slice("base", 1) ELSE Slice(c, 0)
      BY <2>1, <2>7 DEF Inv, CertInv
    <3> QED BY <2>0, <2>2, <2>3, <2>4, <2>7, <3>1 DEF CallerArray
  <2> QED BY <2>5, <2>6, <2>7
<1> QED BY <1>1, Inductive, PTL

\* Until a Connect chose a token source, only the public discovery is asked
\* (client.go:399).
THEOREM NothingUnconnected == Spec => []NothingSentUnconnected
PROOF
<1>1. Inv => NothingSentUnconnected
  BY DEF Inv, SourceInv, NothingSentUnconnected
<1> QED BY <1>1, Inductive, PTL

\* The credentials of an OTHER deployment go where its configuration says,
\* never to the KMS by default (client.go:152).
THEOREM AvoidKMS == Spec => []CredentialsAvoidKMS
PROOF
<1>1. Inv => CredentialsAvoidKMS
  <2> SUFFICES ASSUME Inv, NEW c \in Clients, source[c].backend = Other, source[c].origin = KMS
               PROVE  KMS \in {config[c].url, config[c].refOrigin}
    BY DEF CredentialsAvoidKMS
  <2>1. source[c] = SourceOf(config[c])
    BY DEF Inv, SourceInv, NoSource, Other
  <2>2. SourceOf(config[c]).origin = resolveAuthURL(config[c].url, config[c])
    BY <2>1 DEF SourceOf, NoSource, SelfManaged, Keycloak, Other
  <2> QED BY <2>1, <2>2 DEF resolveAuthURL
<1> QED BY <1>1, Inductive, PTL
=============================================================================
