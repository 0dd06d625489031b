SPECIFICATION Spec
CONSTANTS
  Conversations = {c1, c2}
  Activities = {a1, a2}
  Bindings = {b1}
  MaxIds = 2
  MaxConvs = 2
  MaxStarts = 2
  None = None
INVARIANTS CleanedAtStop
