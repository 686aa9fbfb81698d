SPECIFICATION ControlSpec
CONSTANTS
  Need <- PairNeed
  Notify = {1}
  Plan <- PairPlan
  BootPlan <- PairBoot
  Clients = {a, b}
  PidSpace = {1, 2, 3}
  MaxBorn = 4
  Settings <- Circumstances
SYMMETRY Alike
CHECK_DEADLOCK FALSE
INVARIANTS ServicesSound StopSpares StopEnds
