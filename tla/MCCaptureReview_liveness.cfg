SPECIFICATION FairSpec
CONSTANTS
  k1 = k1
  k2 = k2
  Captures = {c1, c2}
  Patches = {q1}
  Keys = {k1, k2}
  Readings <- CrossedReadings
  Rows = {r1, r2, r3, r4}
  None = None
CHECK_DEADLOCK FALSE
PROPERTY EveryRequestEnds
