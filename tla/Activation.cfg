SPECIFICATION FairSpec
CONSTANTS
  Ids = {a, b}
  Digests = {d}
  Hashes = {h}
  PinSets <- EverythingOrOneRevoked
  ACTIVATION_MAX_BOOT_ATTEMPTS = 2
  MaxSerial = 3
  MaxRevision = 2
  MaxOutages = 1
  Missing = Missing
  Torn = Torn
  NoReceipt = NoReceipt
  NoOperation = NoOperation
CHECK_DEADLOCK FALSE
INVARIANTS RecordSound PastKept BootableImagesKept
PROPERTIES BootsAuthorized PendingResolves
