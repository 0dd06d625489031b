SPECIFICATION FairSpec
CONSTANTS
  Conversations = {c1, c2}
  Activities = {a1}
  Bindings = {b1, b2}
  MaxIds = 2
  MaxConvs = 1
  MaxStarts = 2
  None = None
INVARIANTS TypeOK NoRevival QuietAfterStop
PROPERTIES ExpiryOwnLease EffectsOnOwnRoute LeasesEnd
