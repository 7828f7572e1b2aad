\* A file task of one product, one agent, two handlers at a time.
CONSTANTS
  Product = {1}
  Agent = {a1}
  NoAgent = NoAgent
  Call = {c1, c2}
  Modes = {"CSV_URL"}
  ConfigUrls = {1}
  TopN = 1
  MaxRetry = 1
  MaxHeld = 1
  MaxHarvests = 2
  RetryCap = 2
  UserOps = {"retry", "cancel"}
  MaxRestarts = 0
SPECIFICATION Spec
PROPERTY RefreshKeepsCancelled
