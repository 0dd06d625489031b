---------------------------- MODULE MCMediaStore ----------------------------
(* MediaStore for TLC.                                                       *)
EXTENDS MediaStore

\* The history of early answers is left out: no action reads it, and of the
\* properties only ReadyUntilExpiry does.
WithoutEarly == early = Empty

\* A new file is saved within its lifetime.
SavedInTime == \A id \in Ids : At(id, "saving") => ~Expired(op[id])
=============================================================================
