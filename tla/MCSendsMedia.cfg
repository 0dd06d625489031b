\* Media sends: two keys, restaged uploads, a ledger that is almost full, a reload;
\* progress is checked as well, so without symmetry.
CONSTANTS
  Keys = {k1, k2}
  Digests = {d1}
  MediaDigests = {d1}
  Uploads = {u1, u2}
  Runtimes = {r1, r2}
  Calls = {c1, c2}
  Retention = 1
  MaxRecords = 2
  MaxBytes = 5
  MaxAliases = 2
  MaxTime = 0
  MaxCrashes = 0
  None = None
SPECIFICATION FairSpec
INVARIANTS OneWriter SnapshotsFit
PROPERTY ReplacementServes
CHECK_DEADLOCK FALSE
