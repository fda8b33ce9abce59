SPECIFICATION AgentSpec
CONSTANTS
  MaxTasks = 1
  MaxSteps = 2
PROPERTY ProposalIsShown
CHECK_DEADLOCK FALSE
