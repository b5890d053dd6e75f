\* The daemon and a "watch --once" beside it on a log of up to three records.
SPECIFICATION WatchFairSpec
CONSTANTS
  w1 = w1
  w2 = w2
  Daemons = {w1}
  Onces = {w2}
  MaxLog = 3
INVARIANTS
  TrailFollowsLog
PROPERTIES
  LoginReported
