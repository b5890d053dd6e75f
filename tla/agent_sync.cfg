\* Runs of sync in turn or overlapping, killed or failing anywhere, while an
\* entry is given, deleted and the server revoked; the clock stands still.
SPECIFICATION Spec
CONSTANTS
  s1 = s1
  s2 = s2
  s3 = s3
  g1 = g1
  Checks = {}
  Syncs = {s1, s2, s3}
  Grants = {g1}
  TTL = 1
  Budget = 1
  NotifyBudget = 1
  MaxTime = 0
SYMMETRY Symmetry
INVARIANTS
  CacheIsWhole
  DeletionReachesCache
  NextSyncRepairs
