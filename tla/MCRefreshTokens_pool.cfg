SPECIFICATION SignedInSpec
CONSTANTS
  Requests = {1, 2}
  Users = {u1}
  Tokens = {1, 2, 3, 4}
  Devices = {1, 2}
  NoToken = NoToken
  NoUser = NoUser
  PoolMax = 2
PROPERTY EveryRequestAnswered
