CONSTANTS
  N = 3
  MaxVersion = 1
  MaxEdits = 2
  MaxRestacks = 1
SPECIFICATION StackSpec
INVARIANTS EveryBranchIsBack
CHECK_DEADLOCK FALSE
