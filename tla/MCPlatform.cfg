CONSTANTS
  Order = {a1, a2}
  NoOrder = NoOrder
  Desk = {b1, b2}
  Ordered = 1
  Tracking = {n1, n2}
  MaxErrands = 4
  Tenant = {a1, a2}
  NoTenant = NoTenant
  User = {root, c1, c2}
  Root = root
  Shop = {s1}
  Visit = {b1, b2}
  MaxVisits = 2
  Subject = {a1, a2}
  Unmapped = Unmapped
  Lister = {b1, b2}
  MaxMapped = 3
  Pages <- MCPages
  Texts <- MCTexts
  Answers <- MCAnswers
  Crawled <- MCCrawled
  Requests <- MCRequests
  MaxPrice = 3000
  Poll = {a1, a2}
  Tab = {t1}
  Item = {c1, c2}
  MaxLoops = 1
  Number = {1, 2}
  Contents <- MCContents
  MaxAnswers = 4
  MaxWidgets = 4
  PageGoods <- MCPageGoods
  Panels <- MCPanels
  Insights <- MCInsights
  TaskFilters <- MCTaskFilters
  Chip = {n1, n2}
  NoChip = NoChip
  Sibling = {s1}
  Own = t1
  NoSku = NoSku
  MaxChips = 3
  Visited = {c1, c2}
  NoVisit = NoVisit
  MaxProducts = 2
  MaxScores = 2
  Tiles = 9
  Mounted = 4
  Overscan = 2
  ScrollStep = 2
  PageSize = 2
  MaxStalls = 2
  MaxHops = 3
  Limits = {2, 8, 20}
SPECIFICATION Spec
SYMMETRY Symmetry
INVARIANTS TypesOK OrdersAgree ServedWithinGrants ManualStands ShipsEnough PollingHolds DeliveriesAsked PanelWins PageReadRight SelectionSettles TopOfListing
PROPERTIES RelistKeepsPrice
CHECK_DEADLOCK FALSE
