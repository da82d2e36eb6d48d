CONSTANTS
  Capacity = 2
  MaxSteps = 2
  MaxPrompts = 2
  MaxFaults = 2
  Budgets = {"none", "left"}
  Stops = {TRUE, FALSE}
SPECIFICATION Spec
INVARIANTS ReportsTheRecord
PROPERTIES FollowEndsUnlessBlinded PromptIsTold DeadlineEndsFollow
