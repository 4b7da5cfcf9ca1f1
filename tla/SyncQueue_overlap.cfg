SPECIFICATION FairSpec
CONSTANTS
  k1 = k1
  k2 = k2
  w1 = w1
  w2 = w2
  s1 = s1
  s2 = s2
  None = None
  Keys = {k1}
  IdKeys = {}
  SweptKeys = {k1}
  Workers = {w1, w2}
  Senders = {s1}
  MaxAttempts = 2
  BatchSize = 1
  SlowWorkers = TRUE
  MaxJobs = 1
  MaxVersion = 1
  MaxFaults = 2
INVARIANT RetryBudget
PROPERTY EveryJobSettles
