SPECIFICATION FairSpec
CONSTANTS
  w1 = w1
  w2 = w2
  o1 = o1
  c1 = c1
  c2 = c2
  acme = acme
  bolt = bolt
  x = x
  y = y
  None = None
  Gone = Gone
  Workers = {w1, w2}
  Jobs = {o1, c1, c2}
  Orders = {o1}
  Firms <- MCFirms
  Names = {acme, bolt}
  Details = {x, y}
  Items = 2
  MaxAttempts = 2
  People = {"rename", "delete"}
  MaxCompanies = 4
  MaxEdits = 1
  MaxFaults = 1
CHECK_DEADLOCK FALSE
INVARIANTS
  TypeOK
  DealsArePaidFor
  DoneOrderHasDeal
  CompanyCostsNothing
PROPERTIES
  EveryJobEnds
