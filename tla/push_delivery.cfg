\* Two rounds of pushes to a phone that comes and goes; two tokens, the second
\* minted after the first was rejected or ran out.
SPECIFICATION FairSpec
CONSTANTS
  r1 = r1
  r2 = r2
  p1 = p1
  Rounds = {r1, r2}
  Phones = {p1}
  Lifetime = 3
  Margin = 1
  Timeout = 1
  MaxTokens = 2
  MaxTime = 3
INVARIANTS
  OneMintForAll
  DeliveredOnce
  TokenOutlivesRound
PROPERTIES
  OnlyRejectedForgotten
  DeletedPhoneLeftAlone
  RoundEnds
