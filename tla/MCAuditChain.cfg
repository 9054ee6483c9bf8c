SPECIFICATION Spec
CONSTANTS
  Transactions = {x1, x2}
  MaxId = 3
  NoEvent = NoEvent
  NoTransaction = NoTransaction
  MaxChanges = 3
SYMMETRY Symmetry
CHECK_DEADLOCK FALSE
INVARIANTS
  IInv
  PredecessorsSurvive
  HeldHashDetects
  OrderlyLogVerifies
PROPERTY RemovalDetected
