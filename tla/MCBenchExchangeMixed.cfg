CONSTANTS
  Listen <- MCListen
  Steps <- MCSteps
  Stamping = {TRUE}
  Timing = {TRUE, FALSE}
  Limit = 2
  Blank = {2}
  Cap = 1
  MaxHalves <- Chatter
  MaxTime = 1
  MaxFaults = 0
SPECIFICATION Spec
INVARIANT CoreRowsAreExact
