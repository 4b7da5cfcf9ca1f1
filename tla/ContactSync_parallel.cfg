SPECIFICATION Spec
CONSTANTS
  None = None
  Gone = Gone
  Followed = None
  HubIds = {h1, h2}
  ShopIds = {u1, u2}
  Mails = {m1, m2}
  Names = {a}
  Firms = {}
  Workers = {w1, w2}
  Kinds = {"hubCreate", "shopCreate", "hubEdit", "shopEdit"}
  PushAlways = FALSE
  CarriesId = TRUE
  MaxRows = 4
  MaxEdits = 2
  MaxFaults = 1
SYMMETRY Ids
CHECK_DEADLOCK FALSE
INVARIANTS
  OneRowEach
  NoHalfMappedRows
  RowsJoinOnePerson
PROPERTIES
  HubLinkStays
