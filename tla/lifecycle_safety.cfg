\* Wait shorter than the lifetime, as in the default configuration; all faults.
SPECIFICATION Spec
CONSTANTS
  r1 = r1
  Reqs = {r1}
  c1 = c1
  c2 = c2
  Calls = {c1, c2}
  WithIP = {r1}
  VerdictWait = 2
  RequestTTL = 3
  PollInterval = 1
  Faults = {"hangup", "store", "crash"}
  MaxTime = 3
SYMMETRY Symmetry
INVARIANTS
  AgentAnswerMatchesRow
  FirstVerdictWins
  TimeoutNotEarly
  ConflictNamesWinner
  PushTellsOutcome
  BookkeepingFollowsDecision
PROPERTIES
  RefinesRegister
