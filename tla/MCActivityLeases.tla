---------------------------- MODULE MCActivityLeases ----------------------------
(***************************************************************************)
(* Instances of ActivityLeases for TLC.                                    *)
(***************************************************************************)
EXTENDS ActivityLeases, TLC
=============================================================================
