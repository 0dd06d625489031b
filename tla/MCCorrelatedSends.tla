-------------------------- MODULE MCCorrelatedSends --------------------------
(***************************************************************************)
(* Instances of CorrelatedSends for TLC.  Calls, runtimes, keys and uploads*)
(* are interchangeable, so the safety runs use their permutations; the     *)
(* liveness run does not.                                                  *)
(***************************************************************************)
EXTENDS CorrelatedSends, TLC

Symmetry ==
  Permutations(Calls) \cup Permutations(Runtimes) \cup Permutations(Keys)
  \cup Permutations(Uploads)
=============================================================================
