SPECIFICATION Spec
CONSTANTS
  t1 = t1
  t2 = t2
  None = None
  Tenants = {t1, t2}
  Accounts <- MCAccounts
  Shops = {s1, s2}
  Rotating = {s1, s2}
  Processes = {p1, p2}
  Callers = {c1, c2}
  Requests = {q1, q2}
  ReportsId = TRUE
  MaxTokens = 3
  MaxStarts = 2
  MaxFaults = 1
SYMMETRY Alike
CHECK_DEADLOCK FALSE
INVARIANTS
  TypeOK
  StoredTokensWork
  RefreshedIsNewer
  RowIsOneShop
  OneShopOnePortal
