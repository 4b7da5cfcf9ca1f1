SPECIFICATION Spec
CONSTANTS
  None = None
  Gone = Gone
  Followed = None
  HubIds = {h1, h2}
  ShopIds = {u1, u2}
  Mails = {m1, m2}
  Names = {a}
  Firms = {}
  Workers = {w1}
  Kinds = {"hubCreate", "hubNoMail", "shopCreate", "hubClear", "shopClear",
           "hubMail", "shopMail", "hubDelete", "shopDelete"}
  PushAlways = FALSE
  CarriesId = FALSE
  MaxRows = 5
  MaxEdits = 3
  MaxFaults = 1
SYMMETRY Ids
CHECK_DEADLOCK FALSE
INVARIANTS
  TypeOK
  SyncedRowsAreLinked
