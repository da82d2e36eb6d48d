CONSTANTS
  N = 3
  MaxVersion = 1
  MaxEdits = 2
  MaxRestacks = 1
SPECIFICATION StackSpec
INVARIANTS BranchesBelowAreBack
CHECK_DEADLOCK FALSE
