SPECIFICATION Spec
CONSTANTS
  a = a
  b = b
  BIG = BIG
  low = low
  None = None
  Words = {a, b, BIG, low}
  Plain <- MCPlain
  Mail = low
  Id = b
  Offered = {}
  HubEdits = {}
  ShopEdits <- NumberEdits
  MaxEdits = 3
CHECK_DEADLOCK FALSE
INVARIANTS
  EchoesAreFew
