SPECIFICATION FairSpec
CONSTANTS
  Command = {c1, c2}
  Handler = {h1}
  NoCommand = NoCommand
  Verdict = {"ok"}
  Expirable = {}
  MaxSockets = 1
  MaxFaults = 0
  MaxCrashes = 0
  MaxTransit = 1
  MaxHandled = 2
CHECK_DEADLOCK FALSE
PROPERTY ServedQueueDrains
