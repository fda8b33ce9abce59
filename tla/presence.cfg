SPECIFICATION WatchSpec
CONSTANTS
  MaxSockets = 2
  MaxToggles = 2
  MaxFrames = 1
  MaxRestarts = 1
  MaxMoves = 1
  MaxBreaks = 2
  MaxSources = 3
INVARIANTS FrameOnlyWhileOn ServerFollowsDesktop OnlineIsShown
PROPERTIES GoneIsShownGone DevicesCatchUp LiveAgain
CHECK_DEADLOCK FALSE
