SPECIFICATION Spec
CONSTANTS
  k1 = k1
  k2 = k2
  Captures = {c1, c2}
  Patches = {q1, q2}
  Keys = {k1, k2}
  Readings <- CrossedReadings
  Rows = {r1, r2, r3}
  None = None
SYMMETRY Symmetry
CHECK_DEADLOCK FALSE
INVARIANTS
  ReviewInv
  OneRowPerEvidence
  UnsureCardsWait
  ConfirmedDataLands
  NoLostReinforcement
  EvidenceIsBacked
