SPECIFICATION FairSpec
CONSTANTS
  Data = {a, b}
  None = None
  Scenarios <- Switching
CHECK_DEADLOCK FALSE
PROPERTIES KeepsPolling Converges FollowsSwitch
