SPECIFICATION Spec

CONSTANTS
  Clients <- TwoClients
  TLSOptions <- SomeTLSOptions
  Configs <- SomeConfigs
  Origins <- ThreeOrigins
  KMS <- Origin

INVARIANTS
  TypeOK
  TLSErrorIsFinal
  TrustIsOwn
  IdentityIsOwn
  NothingSentUnconnected
  CredentialsAvoidKMS
