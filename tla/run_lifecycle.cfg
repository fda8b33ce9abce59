SPECIFICATION FairSpec
CONSTANTS
  Mode = {"manual","ai_assist"}
  Recovered = "failed"
  MaxEngines = 2
  MaxStarts = 2
  MaxDecisions = 2
  MaxCancels = 2
  MaxRestarts = 1
CHECK_DEADLOCK FALSE
INVARIANTS RegistryConsistent DoneWasGranted
PROPERTIES RunSettles OutcomeStays
