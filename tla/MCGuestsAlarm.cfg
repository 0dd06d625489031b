SPECIFICATION Spec
CONSTANTS
  Guests = {g1}
  MaxClosed = 1
  MaxTime = 2
  MaxFailures = 1
  MaxCrashes = 1
  MaxReloads = 1
  MaxChanges = 4
  None = None
  g1 = g1
INVARIANT SuspendedUntilReverified
