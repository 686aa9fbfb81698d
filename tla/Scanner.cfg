SPECIFICATION FairSpec
CONSTANTS
  N = 3
  Pids = {p1, p2}
  NoPid = NoPid
  Need <- NeedFirst
  Wants <- UseFirst
  Oneshot = {3}
  Gradual = {1}
  StopHook = {2}
  Mode <- Modes3
  Delay <- FirstOne
  MaxDelay <- FirstTwo
  StableAfter <- FirstOne
  ReadyTimeout <- FirstOne
  AgeCap = 1
  Idle = 2
  Requests <- AskFirst
  Forking = {1, 2}
INVARIANTS UnitsSound ProcessesOwned
PROPERTIES OrderKept UnitsStart ShutsDown
