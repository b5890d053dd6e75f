\* A check, break-glass and notify mode or not, a sync and a grant overlap.
SPECIFICATION FairSpec
CONSTANTS
  k1 = k1
  s1 = s1
  g1 = g1
  Checks = {k1}
  Syncs = {s1}
  Grants = {g1}
  TTL = 1
  Budget = 1
  NotifyBudget = 1
  MaxTime = 1
INVARIANTS
  FailClosed
PROPERTIES
  CheckEnds
