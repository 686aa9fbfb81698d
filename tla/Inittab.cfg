SPECIFICATION FairSpec
CONSTANTS
  Action <- Console
  DelayMs = 1
  LaunchLimit = 0
  MaxLaunches = 2
  MaxStrays = 1
  Pids = {1, 2, 3}
  Signals = {"HUP", "USR2"}
  Worlds <- Failures
INVARIANTS ProcessesOwned
PROPERTIES EndsAsAsked Respawns
