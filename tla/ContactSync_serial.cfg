SPECIFICATION FairSpec
CONSTANTS
  None = None
  Gone = Gone
  Followed = m1
  HubIds = {h1}
  ShopIds = {u1}
  Mails = {m1}
  Names = {a, b}
  Firms = {f}
  Workers = {w1}
  Kinds = {"hubCreate", "shopCreate", "hubEdit", "shopEdit", "again", "hubClear", "shopClear"}
  PushAlways = TRUE
  CarriesId = TRUE
  MaxRows = 2
  MaxEdits = 5
  MaxFaults = 0
CHECK_DEADLOCK FALSE
INVARIANTS
  Agreement
  LastEditPrevails
  SkipMeansNoOp
PROPERTIES
  EchoesDieOut
