SPECIFICATION Spec
CONSTANTS
  Mode = {"manual"}
  Recovered = "failed"
  MaxEngines = 1
  MaxStarts = 1
  MaxDecisions = 0
  MaxCancels = 1
  MaxRestarts = 0
CHECK_DEADLOCK FALSE
PROPERTY FinalStatesFinal
