SPECIFICATION DesktopSpec
CONSTANTS
  MaxStarts = 2
  MaxProposals = 2
  MaxPauses = 1
  MaxActions = 2
  MaxTasks = 2
  MaxSteps = 1
  MaxTurns = 7
  MaxReleases = 3
  MaxCalls = 2
  MaxFails = 1
INVARIANTS RunsWhatWasApproved NoStaleQuestion
           NoOverlayLeft
PROPERTIES ApprovedIsExecutedOnce NothingAfterStop SavedMessageResumes CancelWhileWaitingEnds EveryCheckEnds
CHECK_DEADLOCK FALSE
