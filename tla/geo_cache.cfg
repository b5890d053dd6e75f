\* Four lookups of three addresses over a cache of two entries, and a private address;
\* answers are fresh for one or two instants of three.
SPECIFICATION Spec
CONSTANTS
  l1 = l1
  l2 = l2
  l3 = l3
  l4 = l4
  a1 = a1
  a2 = a2
  a3 = a3
  lan = lan
  fr = fr
  Lookups = {l1, l2, l3, l4}
  Addrs = {a1, a2, a3, lan}
  Private = {lan}
  Countries = {fr}
  PositiveTTL = 2
  NegativeTTL = 1
  MaxEntries = 2
  MaxTime = 2
SYMMETRY Symmetry
PROPERTIES
  CachedAnswerIsFresh
  AnswerOutlivesFailures
