CONSTANTS
  N = 3
  MaxVersion = 1
  MaxEdits = 2
  MaxRestacks = 1
SPECIFICATION StackSpec
INVARIANTS PatchesSurvive FailureRestoresTheRest OneBreakIsMended
PROPERTIES NoTipIsLost
CHECK_DEADLOCK FALSE
