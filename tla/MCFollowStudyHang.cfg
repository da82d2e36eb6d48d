CONSTANTS
  Capacity = 1
  MaxSteps = 1
  MaxPrompts = 0
  MaxFaults = 1
  Budgets = {"none"}
  Stops = {FALSE}
SPECIFICATION Spec
PROPERTIES FollowEnds
