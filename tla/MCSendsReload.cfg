\* One key, two calls, conflicting requests with and without an upload, restaged
\* uploads, three setups of the entry, a crash, and a clock that passes the
\* retention.
CONSTANTS
  Keys = {k1}
  Digests = {d1, d2}
  MediaDigests = {d1}
  Uploads = {u1, u2}
  Runtimes = {r1, r2, r3}
  Calls = {c1, c2}
  Retention = 1
  MaxRecords = 2
  MaxBytes = 6
  MaxAliases = 2
  MaxTime = 1
  MaxCrashes = 1
  None = None
SPECIFICATION Spec
SYMMETRY Symmetry
INVARIANTS TypeOK AtMostOnce AnswersStand
PROPERTIES IntentFirst ReceiptsDurable KeepsPromise
CHECK_DEADLOCK FALSE
