--------------------------- MODULE MCEventDelivery ---------------------------
(***************************************************************************)
(* An instance of EventDelivery for TLC: two small worlds in one run.      *)
(* Tasks, runtimes and reactions are interchangeable.                      *)
(***************************************************************************)
EXTENDS EventDelivery, TLC

Reactions == Events \ Messages

Symmetry == Permutations(Tasks) \cup Permutations(Runtimes) \cup Permutations(Reactions)

\* The ids that anything has happened to.
Entered(m) == Held(m.msgs) \cup Held(m.evs)
Touched ==
  {Id(t) : t \in {x \in Tasks : task[x] # None}} \cup Entered(disk)
  \cup UNION {Entered(mem[r]) \cup Entered(undo[r]) : r \in Runtimes}
  \cup UNION {Entered(snap[r]) : r \in {x \in Runtimes : snap[x] # None}}
  \cup {e \in Events : published[e] # <<>>} \cup Held(handed)
  \cup lost \cup evicted \cup dropped

\* Reactions of contacts arrive, over a reload and a crash.
OnlyReactions ==
  /\ routed = Ids
  /\ \A e \in Events \cap Messages : born[e] = 0
  /\ Touched \subseteq Reactions

\* Messages of a group arrive and messages are sent to a contact, over a reload.
OnlyMessages ==
  /\ now <= 1 /\ crashes = 0
  /\ \A e \in Events : born[e] = 0
  /\ Touched \subseteq Messages

InScope == OnlyReactions \/ OnlyMessages
=============================================================================
