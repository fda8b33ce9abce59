SPECIFICATION FairSpec
CONSTANTS
  Web = {a1}
  Own = {o1}
  Tools = {t1}
  MaxActive = 1
  MaxFaults = 1
INVARIANTS RecordTellsTheTruth RunsOnce RowFollows
PROPERTIES EveryActionSettles
CHECK_DEADLOCK FALSE
