\* Two handlers at a time over a category page and its pool, cancelled or not.
CONSTANTS
  Product = {1, 2}
  Agent = {a1}
  NoAgent = NoAgent
  Call = {c1, c2}
  Modes = {"CATEGORY_TOP"}
  ConfigUrls = {1}
  TopN = 1
  MaxRetry = 0
  MaxHeld = 1
  MaxHarvests = 1
  RetryCap = 1
  UserOps = {"cancel"}
  MaxRestarts = 0
SPECIFICATION Spec
SYMMETRY Symmetry
PROPERTY NoCandidateLost
