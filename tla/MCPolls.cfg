\* One application poll, votes in and after its correction window, early timers,
\* two setups of the entry and a crash; and the poll with an automation's in one
\* runtime, whose recovery table has one place.
CONSTANTS
  Polls = {p1, p2}
  Applications = {p1}
  Runtimes = {r1, r2}
  Tasks = {t1, t2}
  SettleTime = 1
  MaxVote = 2
  MaxAttempts = 1
  MaxRecovery = 1
  Skew = 1
  MaxTime = 2
  MaxCrashes = 1
  None = None
SPECIFICATION Spec
SYMMETRY Symmetry
CONSTRAINT InScope
INVARIANTS TypeOK SettledOnce NewestChoice OneWriter CorrectionWindow
INVARIANTS ReceiptsDurable SavedVotesKept NothingStranded
CHECK_DEADLOCK FALSE
