SPECIFICATION FairSpec
CONSTANTS
  Entries = {"a", "b", "c", "plain"}
  Plain = {"plain"}
  Worlds <- Circumstances
CHECK_DEADLOCK FALSE
INVARIANTS HelperSound DaemonSound
PROPERTIES HelperEnds
