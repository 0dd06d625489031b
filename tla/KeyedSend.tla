------------------------------ MODULE KeyedSend ------------------------------
(***************************************************************************)
(* What the correlated-send ledger promises about ONE idempotency key, as  *)
(* a caller of send_to_conversation reads it in docs/CHANNEL_API.md: a     *)
(* durable entry is claimed before anything is transmitted, a claim is     *)
(* transmitted at most once, an entry whose outcome is unknown is never    *)
(* forgotten, and any other one only after its retention.  Managers,       *)
(* locks, reloads, crashes and failing disks are not visible here;         *)
(* CorrelatedSends respects this (CorrelatedSendsRefinement).              *)
(***************************************************************************)
EXTENDS Naturals

CONSTANTS
  Retention,   \* how long an entry is kept after it was claimed
  None         \* the absence of an entry

VARIABLES
  now,         \* the wall clock
  entry,       \* the durable entry of the key: None or [status, created]
  log          \* the transmissions made under the key: set of [call, created]

vars == <<now, entry, log>>

Settled == {"accepted", "failed", "unsaved"}
-----------------------------------------------------------------------------
Transmitted == \E t \in log : t.created = entry.created

\* The entry may give way: it is old, and not known to be uncertain.  (A pending
\* one can: when its send takes longer than the retention, its outcome may be
\* pruned from memory before it was saved.)
Expired ==
  /\ entry # None
  /\ entry.created + Retention <= now
  /\ entry.status # "unknown"

Init ==
  /\ now = 0
  /\ entry = None
  /\ log = {}

\* The clock never moves backwards.
Tick ==
  /\ now' > now
  /\ UNCHANGED <<entry, log>>

\* A new intent becomes durable, or one that was refused for lack of storage.
Claim ==
  /\ entry = None \/ Expired
  /\ entry' # None
  /\ entry'.status \in {"pending", "unsaved"}
  /\ \A t \in log : t.created + Retention <= entry'.created
  /\ UNCHANGED <<now, log>>

\* The one transmission of a durable claim.
Transmit ==
  /\ entry # None
  /\ entry.status = "pending"
  /\ ~Transmitted
  /\ \E t \in log' : t.created = entry.created /\ log' = log \cup {t}
  /\ UNCHANGED <<now, entry>>

\* The outcome of the claim becomes durable, or becomes uncertain.
Resolve ==
  /\ entry # None
  /\ entry' # None
  /\ entry'.created = entry.created
  /\ entry.status = "unknown" => entry'.status = "unknown"
  /\ entry.status \in Settled => entry'.status \in {entry.status, "unknown"}
  /\ entry'.status = "accepted" => Transmitted
  /\ entry'.status # "pending"
  /\ UNCHANGED <<now, log>>

Forget ==
  /\ Expired
  /\ entry' = None
  /\ UNCHANGED <<now, log>>

Next == Tick \/ Claim \/ Transmit \/ Resolve \/ Forget

Spec == Init /\ [][Next]_vars
=============================================================================
