\* One request for one shop, a job tried twice.
CONSTANTS
  Shop = {s1}
  Nowhere = Nowhere
  Call = {h1}
  MaxTries = 2
  MaxRequests = 1
  MaxRestarts = 0
SPECIFICATION Spec
INVARIANT RetryPending
CHECK_DEADLOCK FALSE
