SPECIFICATION FairSpec
CONSTANTS
  Runs = {1, 2, 3, 4}
  Order <- TwoHosts
  Paths = {"run", "home"}
  Volatile = {"run"}
  PathOf <- ByUser
  Worlds <- Circumstances
CHECK_DEADLOCK FALSE
INVARIANTS HostsExclusive LocksReleased
PROPERTIES Ends
