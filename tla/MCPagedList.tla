----------------------------- MODULE MCPagedList -----------------------------
(***************************************************************************)
(* Instances of PagedList for TLC.                                         *)
(***************************************************************************)
EXTENDS PagedList

AnyOrder    == {"newestFirst", "unsorted"}
AnyEnvelope == {"full", "noLast"}
AnyChange   == {"create", "delete"}
OnlySorted  == {"newestFirst"}
OnlyFull    == {"full"}
=============================================================================
