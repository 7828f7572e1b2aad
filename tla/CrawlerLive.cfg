\* One handler at a time, no operator but for cancelling; fair agents.
CONSTANTS
  Product = {1, 2, 3}
  Agent = {a1}
  NoAgent = NoAgent
  Call = {c1}
  Modes = {"CATEGORY_TOP", "CSV_URL"}
  ConfigUrls = {1, 2}
  TopN = 1
  MaxRetry = 1
  MaxHeld = 1
  MaxHarvests = 2
  RetryCap = 2
  UserOps = {"cancel"}
  MaxRestarts = 0
SPECIFICATION LiveSpec
PROPERTY Settles
