SPECIFICATION TrustFairSpec
CONSTANTS
  Releases <- Reissued
  MaxTime = 2
  Slots = {1, 2, 3}
  Worlds <- FiveWorlds
INVARIANTS StoreSound Recoverable
PROPERTIES TrustAdvances Converges
