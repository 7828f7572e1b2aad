\* Two agents and two handlers at a time over the same item, one API restart.
CONSTANTS
  Product = {1}
  Agent = {a1, a2}
  NoAgent = NoAgent
  Call = {c1, c2}
  Modes = {"CSV_URL"}
  ConfigUrls = {1}
  TopN = 1
  MaxRetry = 1
  MaxHeld = 2
  MaxHarvests = 2
  RetryCap = 2
  UserOps = {"retry", "cancel", "delete"}
  MaxRestarts = 1
SPECIFICATION Spec
SYMMETRY Symmetry
INVARIANT RunningHasOwner
PROPERTY ImplementsDispatch
