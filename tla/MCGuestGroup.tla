---------------------------- MODULE MCGuestGroup ----------------------------
(* GuestGroup for TLC.                                                       *)
EXTENDS GuestGroup
=============================================================================
