\* Wildberries: stocks, rate limiter, catalogue, cards, sizes, values.
CONSTANTS
  Fleets <- MCFleets
  Boxes <- MCBoxes
  Stocker = {j1}
  EnvWarehouse = 0
  MaxStocked = 2
  Caller = {c1, c2, c3}
  MaxConcurrent = 2
  MinInterval = 1
  ThrottleStep = 1
  OkStep = 1
  MaxPenalty = 2
  Attempts <- MCAttempts
  Entry = {e1, e2, e3}
  Pinned = {e1}
  Persisted = {e1, e2}
  MaxEntries = 1
  Loader = {l1, l2}
  NoEntry = NoEntry
  MaxLoads = 4
  MaxCards = 2
  MaxListings = 2
  MaxRefusals = 2
  Complaints = {"noSize", "brand"}
  Numbered <- MCNumbered
  MaxOptions = 3
  MaxBarcodes = 3
  BrandDirectory <- MCBrands
  BrandCap = 2
  TextLengths = {4, 29, 35}
  WordCounts = {1, 5}
  ShopBrand = NoBrand
  NoBrand = NoBrand
  b1 = b1
  b2 = b2
  b3 = b3
  Albums <- MCAlbums
  MaxPhotos = 3
  MaxUploads = 2
  MaxMediaRuns = 2
SPECIFICATION Spec
SYMMETRY Symmetry
INVARIANTS TypesOK SyncFindsWarehouse TurnsKept OneCard CardSizes ValuesAccepted GalleryInOrder
PROPERTIES LoadedOnce
CHECK_DEADLOCK FALSE
