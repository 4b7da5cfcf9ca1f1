SPECIFICATION Spec
CONSTANTS
  a = a
  b = b
  BIG = BIG
  low = low
  None = None
  Words = {a, b, BIG, low}
  Plain <- MCPlain
  Mail = low
  Id = b
  Offered <- MCOffered
  HubEdits <- MCHubEdits
  ShopEdits <- MCShopEdits
  MaxEdits = 4
CHECK_DEADLOCK FALSE
INVARIANTS
  TypeOK
  HubEchoIsSkipped
  FieldsAgree
  EchoesAreFew
