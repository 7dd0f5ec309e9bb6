SPECIFICATION RdvSpec
CONSTANTS
  RdvDeployments <- MCMlTwice
  RdvRuns = 2
  RdvTimeouts = 0
INVARIANT MlFlagMeansDone
CHECK_DEADLOCK FALSE
