SPECIFICATION RecordsSpec
CONSTANTS
  Tabs = {t1, t2}
  MaxCalls = 3
  Users = {u1, u2}
  NoUser = NoUser
  MaxTokens = 2
  MaxSignIns = 1
  MaxHandoffs = 1
  MaxStops = 1
  BillingUsers = {v1}
  Checkouts = {k1, k2}
  Handlers = {h1, h2}
  MaxEvents = 3
  Jobs = {c1, c2}
  MaxJobs = 3
SYMMETRY RequestSymmetry
CONSTRAINT NoOverlap
INVARIANTS CookieIsLive OneOwner KeychainIsCurrent
           EventAppliedExactlyOnce SettledRowIsStripes
           NoOrphan
PROPERTY RevokedStaysRevoked
CHECK_DEADLOCK FALSE
