CONSTANTS
  Capacity = 1
  MaxSteps = 1
  MaxPrompts = 0
  MaxFaults = 0
  Budgets = {"left"}
  Stops = {FALSE}
SPECIFICATION Spec
PROPERTIES DeadlineIsOverall
