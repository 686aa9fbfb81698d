SPECIFICATION FairSpec
CONSTANTS
  Packages = {"a", "b"}
  MaxKey = 3
  VersionOf <- Rebuilt
  Publishers = {"p", "q"}
  BytesOf <- OwnBytes
  Clients = {"c", "d"}
  Worlds <- Circumstances
CHECK_DEADLOCK FALSE
INVARIANTS RepositorySound
PROPERTIES MirrorAdvances FloorHolds Follows
