\* Two shops, two requests, a job tried twice.
CONSTANTS
  Shop = {s1, s2}
  Nowhere = Nowhere
  Call = {h1, h2}
  MaxTries = 2
  MaxRequests = 2
  MaxRestarts = 0
SPECIFICATION Spec
SYMMETRY Symmetry
INVARIANTS SummaryAgrees
CHECK_DEADLOCK FALSE
