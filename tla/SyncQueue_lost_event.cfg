SPECIFICATION Spec
CONSTANTS
  k1 = k1
  k2 = k2
  w1 = w1
  w2 = w2
  s1 = s1
  s2 = s2
  None = None
  Keys = {k1}
  IdKeys = {}
  SweptKeys = {}
  Workers = {w1}
  Senders = {s1}
  MaxAttempts = 2
  BatchSize = 1
  SlowWorkers = FALSE
  MaxJobs = 1
  MaxVersion = 2
  MaxFaults = 0
INVARIANT AcceptedIsDelivered
