CONSTANTS
  Dials = {d1, d2, d3}
  Listens = {l1, l2}
SPECIFICATION FairSpec
INVARIANTS DialResultHolds NothingSurvives
PROPERTY WorkersEnd
CHECK_DEADLOCK FALSE
