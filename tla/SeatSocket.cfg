SPECIFICATION SocketFairSpec
CONSTANTS
  Daemons = {d, e, f}
  Refused = {f}
  Nothing = Nothing
  File = File
CHECK_DEADLOCK FALSE
PROPERTIES LiveSpared Recovers
