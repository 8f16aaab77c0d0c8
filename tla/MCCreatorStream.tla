--------------------------- MODULE MCCreatorStream ---------------------------
(***************************************************************************)
(* Instances of CreatorStream for TLC.                                     *)
(***************************************************************************)
EXTENDS CreatorStream, TLC
=============================================================================
