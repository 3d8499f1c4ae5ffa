---------------------------- MODULE MCKeyRotation ----------------------------
(***************************************************************************)
(* Instances of KeyRotation for TLC.                                       *)
(***************************************************************************)
EXTENDS KeyRotation, TLC

CONSTANTS r1, r2

TwoRotators == {r1, r2}
AnyView     == {"forward", "backward", "both", "chain"}
Plain       == {"success", "apiError", "transportError"}
AnyAnswer   == Plain \cup {"redirect"}
Symmetry    == Permutations(Rotators)
=============================================================================
