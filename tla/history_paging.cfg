\* Three rows, ties of created_at included, pages of one row, two loads of the
\* screen with any filter.
SPECIFICATION FairSpec
CONSTANTS
  MaxRows = 3
  MaxTime = 3
  MaxLoads = 2
  PageSize = 2
  MaxLimit = 1
INVARIANTS
  ListSorted
  OneFilter
  NoRowSkipped
PROPERTIES
  MoreEnds
