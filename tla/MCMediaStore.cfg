\* One received attachment, one upload and one reader; a failing save and a crash.
SPECIFICATION Spec
CONSTANTS
  Attachments = {a1}
  Uploads = {u1}
  Readers = {r1}
  Lifetime = 2
  MaxItems = 2
  MaxFiles = 2
  MaxBytes = 1
  CacheBytes = 1
  SweepTime = 1
  LastUpload = 1
  MaxTime = 4
  MaxFailures = 1
  MaxCrashes = 1
  None = None
  a1 = a1
  u1 = u1
  r1 = r1
CONSTRAINT WithoutEarly
INVARIANT BudgetKept ReadersKeepFiles ToldIsDurable RemovedWithTombstone
