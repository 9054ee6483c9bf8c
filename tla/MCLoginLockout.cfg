SPECIFICATION Spec
CONSTANTS
  Requests = {r1, r2, r3, r4}
  MaxFailed = 2
  Lockout = 2
  MfaTtl = 1
  MaxClock = 4
SYMMETRY Symmetry
INVARIANTS
  LockNeedsFailures
  LockStopsNewcomers
  SerialCountExact
  MfaNeedsPassword
  IInv
