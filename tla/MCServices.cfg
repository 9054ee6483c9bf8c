SPECIFICATION ServicesSpec
CONSTANTS
  None = None
  Calls = {c1, c2}
  Versions = {v1}
  Cap = 1
  LogAccepted = {TRUE, FALSE}
  Ttl = 1
  Margin = 2
  Life = 3
  LatencyMax = 1
  QueryMax = 1
  Asks = {k1}
  Threshold = 3
  MaxIssues = 4
  MaxPrefs = 1
  Polls = {p1, p2}
  Reviews = {"r1", "r2"}
  Properties = {"A", "B"}
  About <- AboutTwo
  MaxClock = 4
  Unset = Unset
  Clients = {n1}
  Works = {w1, w2}
  Tenants = {t1, t2}
  Agents = {a1}
  Runners = {u1, u2}
  N = 3
  Wrapped = {2}
  Repeatable = {3}
  Reversible = {3}
  Rows = {1, 2, 3}
  Millis = {1, 2}
  Micros = {0, 1}
  Limits = {1, 2}
  Loops = {l1, l2}
  Form = form
  Captures = {x1}
  MaxAttempts = 2
  MaxReloads = 1
CHECK_DEADLOCK FALSE
INVARIANTS
  PartsTypeOK
  TrajectoryNotMasked
  ReviewsNotLost
  TenantIsolated
  MigrationsOrderly
  PagesComplete
  TokenSentOnce
  QueuedKept
PROPERTIES
  CachesFreshWhenUsed
  ReplaysAttend
