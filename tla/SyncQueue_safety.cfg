SPECIFICATION Spec
CONSTANTS
  k1 = k1
  k2 = k2
  w1 = w1
  w2 = w2
  s1 = s1
  s2 = s2
  None = None
  Keys = {k1}
  IdKeys = {k1}
  SweptKeys = {}
  Workers = {w1, w2}
  Senders = {s1, s2}
  MaxAttempts = 2
  BatchSize = 1
  SlowWorkers = FALSE
  MaxJobs = 2
  MaxVersion = 2
  MaxFaults = 1
SYMMETRY Symmetry
INVARIANTS
  TypeOK
  RowLock
  DoneCoversEveryEvent
  RetryBudget
PROPERTY SettledStays
