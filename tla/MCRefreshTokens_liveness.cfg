SPECIFICATION SignedInSpec
CONSTANTS
  Requests = {1, 2, 3}
  Users = {u1}
  Tokens = {1, 2, 3, 4, 5}
  Devices = {1, 2}
  NoToken = NoToken
  NoUser = NoUser
  PoolMax = 3
PROPERTY EveryRequestAnswered
