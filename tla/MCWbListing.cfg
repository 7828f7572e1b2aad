\* One shop, asked four times, with a restart.
CONSTANTS
  Shop = {s1}
  Nowhere = Nowhere
  Call = {h1, h2}
  MaxTries = 2
  MaxRequests = 4
  MaxRestarts = 1
SPECIFICATION Spec
SYMMETRY Symmetry
INVARIANTS TypeOK QueuedHasJob RowsMatchCards
PROPERTIES CancelSticks RemoveKeepsKnown
CHECK_DEADLOCK FALSE
