SPECIFICATION Spec
CONSTANTS
  Command = {c1}
  Handler = {h1}
  NoCommand = NoCommand
  Verdict = {"ok"}
  Expirable = {}
  MaxSockets = 2
  MaxFaults = 1
  MaxCrashes = 1
  MaxTransit = 1
  MaxHandled = 2
CHECK_DEADLOCK FALSE
INVARIANT NoSilentDrop
