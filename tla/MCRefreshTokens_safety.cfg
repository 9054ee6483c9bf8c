SPECIFICATION Spec
CONSTANTS
  Requests = {r1, r2, r3, r4}
  Users = {u1}
  Tokens = {t1, t2, t3, t4}
  Devices = {}
  NoToken = NoToken
  NoUser = NoUser
  PoolMax = 5
SYMMETRY Symmetry
INVARIANTS
  OneSuccessor
  OneLiveTokenPerSession
  IInv
PROPERTY RotationIsAtomic
PROPERTY ImplementsOneTimeTokens
