-------------------------- MODULE MCPollSettlement --------------------------
(***************************************************************************)
(* An instance of PollSettlement for TLC: two small worlds in one run.     *)
(* Tasks and runtimes are interchangeable.                                 *)
(***************************************************************************)
EXTENDS PollSettlement, TLC

Symmetry == Permutations(Tasks) \cup Permutations(Runtimes)

\* One application poll, over a reload and a crash.
OnlyApplication == registered \subseteq Applications

\* Both polls compete for the place in the recovery table of one runtime.
OnlyRuntime ==
  /\ now <= 1 /\ crashes = 0
  /\ Cardinality({r \in Runtimes : phase[r] # "new"}) <= 1
  /\ \A r \in Runtimes, p \in Polls :
       mem[r].polls[p] # None => mem[r].polls[p].ts <= 1

InScope == OnlyApplication \/ OnlyRuntime
=============================================================================
