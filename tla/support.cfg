SPECIFICATION SupportSpec
CONSTANTS
  Callers = {c1, c2}
  W = 3
  Second = 2
  Limit = 1
  Timeout = 2
  MaxNow = 9
  MaxRequests = 3
  Commands = {k1, k2}
  HasPassword = TRUE
  HasDatabase = TRUE
  Actions = {a1, a2}
  Lengths = {5, 501}
  MaxEvents = 3
  Runs = {r1, r2}
  HistoryLimit = 1
  MaxDown = 3
  MaxLoads = 1
  MaxCancels = 1
  Cloud = {"openai", "claude"}
  MaxChanges = 3
  MaxAsked = 3
  AgentRole = {g1, g2}
  AgentGroups = {{g1}, {g1, g2}}
  MaxClicks = 6
  MaxIterations = 2
INVARIANTS CountIsOfRows WindowLimit ResolvedIsOwn ApprovedIsMeant SavedIsSaved PhasesInOrder
SYMMETRY RunSymmetry
CHECK_DEADLOCK FALSE
