---------------------------- MODULE MCKmsClient -----------------------------
(***************************************************************************)
(* Instances of KmsClient for TLC.                                         *)
(***************************************************************************)
EXTENDS KmsClient, TLC

CONSTANTS g1, g2

TwoCallers == {g1, g2}

\* Callers are interchangeable.  Never used in a run with a liveness property.
Symmetry == Permutations(Callers)

\* The shapes of a token response.
Full       == [access |-> TRUE,  expires |-> TRUE,  refresh |-> TRUE,  refreshExpires |-> TRUE]
NoRefresh  == [access |-> TRUE,  expires |-> TRUE,  refresh |-> FALSE, refreshExpires |-> FALSE]
NoAccess   == [access |-> FALSE, expires |-> FALSE, refresh |-> FALSE, refreshExpires |-> FALSE]

SomeShapes == {Full, NoRefresh, NoAccess}
FullOnly   == {Full}

OnlyCalls    == {"call"}
OnlyRevoke   == {"revoke"}
OnlyCancel   == {"cancel"}
NoFaults     == {}
OnlyKeycloak == {Keycloak}
OnlySelf     == {SelfManaged}
=============================================================================
