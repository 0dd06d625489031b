SPECIFICATION Spec
CONSTANTS
  Guests = {g1}
  MaxClosed = 1
  MaxTime = 2
  MaxFailures = 1
  MaxCrashes = 1
  MaxReloads = 1
  MaxChanges = 3
  None = None
  g1 = g1
INVARIANT CreatedOnce FileValidates SendsToMembers ConfirmedIsSaved
