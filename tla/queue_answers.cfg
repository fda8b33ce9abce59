SPECIFICATION Spec
CONSTANTS
  Command = {c1}
  Handler = {h1, h2}
  NoCommand = NoCommand
  Verdict = {"ok", "retry"}
  Expirable = {c1}
  MaxSockets = 1
  MaxFaults = 1
  MaxCrashes = 0
  MaxTransit = 2
  MaxHandled = 2
CHECK_DEADLOCK FALSE
INVARIANTS AtMostOncePerSession NothingStuck
PROPERTY DeliverySpec
