SPECIFICATION MCSpec
CONSTANTS
  g1 = g1
  g2 = g2
  g3 = g3
  m1 = m1
  Creates = {c1, c2}
  Patches = {p1}
  Hooks = {h1, h2}
  Guests = {g1, g2, g3}
  Bookings = {1, 2}
  Emails = {e1}
  MewsIds = {m1}
  Days = {1, 2}
  Lookups = {"found", "none", "error"}
  None = None
  Generators = {b1, b2}
  Readers = {v1}
  MaxItems = 2
  Preps = {k1, k2}
  Completions = {f1}
  TimeOf <- SameTime
  BriefDay = 1
  PrepDay = 1
  Casts = {{c1, c2, p1}, {h1, h2, p1}, {h1, b1, b2}, {b1, b2, v1}, {h1, k1, f1}, {k1, k2, f1}}
CHECK_DEADLOCK FALSE
INVARIANTS
  ArrivalsTypeOK
  NoSerialDuplicate
  BriefIsOneGeneration
  PrepAllOrNothing
PROPERTY OverwrittenOnlyUnseen
