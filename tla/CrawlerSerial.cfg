\* One handler at a time; three products, one wanted, two in the pool.
CONSTANTS
  Product = {1, 2, 3}
  Agent = {a1}
  NoAgent = NoAgent
  Call = {c1}
  Modes = {"CATEGORY_TOP", "CSV_URL"}
  ConfigUrls = {1, 2}
  TopN = 1
  MaxRetry = 1
  MaxHeld = 1
  MaxHarvests = 2
  RetryCap = 2
  UserOps = {"retry", "cancel"}
  MaxRestarts = 0
SPECIFICATION Spec
INVARIANTS TypeOK SettledStatus RetryingHasJob QuotaHolds
PROPERTY CancelIsFinal
