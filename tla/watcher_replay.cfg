\* The same instance: a first query that fails replays the log.
SPECIFICATION WatchSpec
CONSTANTS
  w1 = w1
  w2 = w2
  Daemons = {w1}
  Onces = {w2}
  MaxLog = 3
INVARIANTS
  NothingReplayed
