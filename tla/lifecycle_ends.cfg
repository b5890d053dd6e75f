\* Liveness of the waiting handler under every fault.
SPECIFICATION FairSpec
CONSTANTS
  r1 = r1
  Reqs = {r1}
  c1 = c1
  Calls = {c1}
  WithIP = {r1}
  VerdictWait = 2
  RequestTTL = 3
  PollInterval = 1
  Faults = {"hangup", "store", "crash"}
  MaxTime = 4
PROPERTIES
  HandlerEnds
  WaitedRowCloses
