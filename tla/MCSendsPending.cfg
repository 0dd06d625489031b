\* A cancelled call leaves its record pending: two keys, three calls, one runtime.
CONSTANTS
  Keys = {k1, k2}
  Digests = {d1}
  MediaDigests = {}
  Uploads = {}
  Runtimes = {r1}
  Calls = {c1, c2, c3}
  Retention = 1
  MaxRecords = 2
  MaxBytes = 6
  MaxAliases = 2
  MaxTime = 0
  MaxCrashes = 0
  None = None
SPECIFICATION Spec
PROPERTY PendingIsConcurrent
CHECK_DEADLOCK FALSE
