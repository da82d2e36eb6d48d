CONSTANTS
  Ours = "ours"
  Builds <- MCBuilds
SPECIFICATION Spec
CHECK_DEADLOCK FALSE
INVARIANTS
  UnenrollTellsTheTruth
