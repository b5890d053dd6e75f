\* Two containers and a deploy job on an empty database, a request, a burst of
\* two invocations; the verdict wait is just below the drain.
SPECIFICATION FairSpec
CONSTANTS
  s1 = s1
  s2 = s2
  j1 = j1
  q1 = q1
  c1 = c1
  c2 = c2
  Servers = {s1, s2}
  Jobs = {j1}
  Files = 2
  Requests = {q1}
  Calls = {c1, c2}
  VerdictWait = 1
  DrainTimeout = 2
  StartTimeout = 1
  RetryAfter = 1
  MaxCrashes = 1
INVARIANTS
  AppliedOnceInOrder
  ServesOnFullSchema
  DrainCutsNobody
  OneBackend
PROPERTIES
  SchemaCompletes
  FunctionRecovers
