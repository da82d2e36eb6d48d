CONSTANTS
  N = 4
  MaxVersion = 1
  MaxEdits = 2
  MaxRestacks = 1
SPECIFICATION StackSpec
INVARIANTS BranchesBelowAreLeft
CHECK_DEADLOCK FALSE
