SPECIFICATION Spec
CONSTANTS
  Clients = {a, b, c}
  None = None
  Vts = {1, 2}
  Drm = {card}
  Input = {keys}
  MaxDevices = 1
  MaxRef = 2
  Worlds <- Circumstances
SYMMETRY ClientSymmetry
CHECK_DEADLOCK FALSE
INVARIANTS SeatSound DevicesFollow
PROPERTIES KeepsPromise
