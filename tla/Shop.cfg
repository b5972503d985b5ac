CONSTANTS
  a1 = a1  a2 = a2  r1 = r1  r2 = r2  g1 = g1  g2 = g2

  Clerks = {a1, a2}  Rows = {r1, r2}  Goods = {g1, g2}  GoodType <- ShopGoodType
  MaxBatch = 2  NewStatuses = {"ARCHIVED"}  Imports <- ShopImports
  NoRow = NoRow  Same = Same

  Buyers = {a1, a2}  Wares = {p1}  Prices = {2, 4}  MaxUnits = 1  MaxQuantity = 1
  Limits = {1, Unlimited}  Discounts <- ShopDiscounts  MinPurchases = {3}  HighAmount = 3
  MaxOrders = 2  MaxEdits = 1  Unlimited = Unlimited  None = None

  Tabs = {a1, a2}  Offers = {p1}  CartMax = 2  MaxAsked = 2

  Tellers = {a1, a2}  Amounts = {1, 2}  PageSize = 2  MaxLedger = 3

  Devices = {a1, a2}  Tokens = {r1, r2}  Logins = {l1}  Links = {n1}  Codes = {c1}
  NoSession = NoSession  NoToken = NoToken  NoLogin = NoLogin  NoSecret = NoSecret

  Visitors = {a1, a2}  Accounts = {r1, r2}  Emails = {"Ana", "ana", "bia"}  Typed = {"Ana", "bia"}
  Lower <- ShopLower  Signups = {s1}  Changes = {m1}  Unwritten = Unwritten

  Officers = {a1, a2}  People = {r1, r2}  Grants = {"USER", "SUPERADMIN"}  NoPerson = NoPerson  NoRole = NoRole

  Files = {f1}  FileLength = 3  BatchSize = 2  Titles = {"Doom", "Quake"}  MaxListed = 2

  Shelves = {r1, r2}  Articles = {i1}  Curators = {a1, a2}  Root = Root  Gone = Gone

  Headings = {"XBOX", "PLAYSTATION", "MOBILE"}  Recognised = {"XBOX", "PLAYSTATION"}
  Titled <- ShopTitled  Regions = {"europa", "conta primaria"}  Hints <- ShopHints
  Products <- ShopProducts  MaxColumns = 2

  SellerRows = {r1, r2}  Owners = {u1, u2}  Commissions = {0, 30}  Intents = {e1}
  Nobody = Nobody
SPECIFICATION ShopSpec
SYMMETRY ShopSymmetry
VIEW ShopView
CHECK_DEADLOCK FALSE
INVARIANTS
  ShopTypeOK
  CouponWithinLimits UsesAreOrders NegativeOnlyIfRepriced
  QuantityWasAllowed
  LedgerExplainsWallet OverdraftIsBounded WalkIsComplete
  OneTokenPerLogin ResetEndsSessions SecretUsedOnce
  RegisteredOnce ChangedAddressAnswered
  SuperadminOutOfReach
  RowsSurviveImport
  NoticeMatchesSplit
PROPERTIES
  ImportAddsUp
  RecountHeals LoneDeletionSparesSold
  LoneAddAdds
  SpentWithAddress
  DemotionLeavesSuperadmin
  RepeatsOnlyRaced
  OrphansOnlyRaced
