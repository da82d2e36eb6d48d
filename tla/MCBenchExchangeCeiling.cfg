CONSTANTS
  Listen <- MCListen
  Steps <- MCSteps
  Stamping = {FALSE}
  Timing = {FALSE}
  Limit = 2
  Blank = {2}
  Cap = 1
  MaxHalves <- Chatter
  MaxTime = 1
  MaxFaults = 1
SPECIFICATION Spec
INVARIANT PolledRowIsCeiling

