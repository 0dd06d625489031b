\* Two reactions of contacts, one of which fits into the table of claims, two setups
\* of the entry and a crash; and a message of a group with one that is sent to a
\* contact, whose tokens do not both fit, and two setups.
CONSTANTS
  Events = {e1, e2, m1}
  Messages = {m1, s1}
  Managed = {m1}
  Rechecked = {m1}
  Runtimes = {r1, r2}
  Tasks = {t1, t2}
  EventTTL = 2
  MessageTTL = 1
  MaxAge = 0
  FutureSkew = 0
  HandlingTime = 0
  MaxEvents = 1
  MaxMessages = 1
  MaxTime = 2
  MaxCrashes = 1
  None = None
SPECIFICATION Spec
SYMMETRY Symmetry
CONSTRAINT InScope
INVARIANTS PublishedOnce ClaimedFirst OneWriter ClaimsKept
INVARIANTS TypeOK TokensKept UsableIsDurable NoSilentLoss
CHECK_DEADLOCK FALSE
