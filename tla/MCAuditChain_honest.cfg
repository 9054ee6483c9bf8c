SPECIFICATION Spec
CONSTANTS
  Transactions = {x1, x2}
  MaxId = 3
  NoEvent = NoEvent
  NoTransaction = NoTransaction
  MaxChanges = 0
SYMMETRY Symmetry
CHECK_DEADLOCK FALSE
INVARIANT HonestLogVerifies
