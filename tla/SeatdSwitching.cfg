SPECIFICATION FairSpec
CONSTANTS
  Clients = {a, b}
  None = None
  Vts = {1, 2, 3}
  Drm = {}
  Input = {}
  MaxDevices = 1
  MaxRef = 1
  Worlds <- TakingTurns
CHECK_DEADLOCK FALSE
PROPERTIES SwitchReachesTarget ReleaseAnswered
