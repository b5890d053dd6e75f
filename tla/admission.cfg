\* A request evaluated while two geo rules are created and deleted, and a block
\* or a whitelist entry changes three times; requests only read the tables, so
\* one stands for all.
SPECIFICATION Spec
CONSTANTS
  r1 = r1
  c1 = c1
  c2 = c2
  d1 = d1
  d2 = d2
  a1 = a1
  fr = fr
  kp = kp
  Reqs = {r1}
  Creates = {c1, c2}
  Deletes = {d1, d2}
  Addrs = {a1}
  Countries = {fr, kp}
  MaxTime = 1
  MaxChanges = 3
SYMMETRY Symmetry
INVARIANTS
  StandingRuleApplies
  OutcomeHadItsRule
  AcceptedRuleHolds
