SPECIFICATION SweepSpec
CONSTANTS
  Processes = {p1}
  Contacts = {c1, c2}
  Customers = {u1}
  Contents = {a, b}
  Never = Never
  None = None
  Live = Live
  Overlap = 1
  Lookback = 1
  PageSize = 1
  MaxPages = 4
  Skew = 1
  ShopLists = TRUE
  FirstPassInTime = TRUE
  Backlog = FALSE
  MaxTime = 2
  MaxEdits = 2
  MaxFaults = 1
CHECK_DEADLOCK FALSE
INVARIANTS
  TypeOK
  NothingFallsBetween
PROPERTIES
  LostEventsAreFound
