CONSTANTS
  Editors = {x1}  Counters = {k1}  MaxShelf = 1  Asked = {1, 2}  Elsewhere = {"KEY"}
  MAX_PAGE_SIZE = 2  PageLimits = {1, 2, 3}  ListRows = {r1, r2, r3}  MaxPlace = 3  MaxMoves = 1
SPECIFICATION FocusSpec
CHECK_DEADLOCK FALSE
INVARIANTS
  FocusTypeOK
  StockIsCounted
  MissesAreBounded
PROPERTIES
  ActivatedWithUnits
