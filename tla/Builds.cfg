SPECIFICATION FairSpec
CONSTANTS
  Deps <- SomeDeps
  Runtime <- SomeRuntime
  Builders = {1, 2}
  Jobs = 2
  Worlds <- Circumstances
CHECK_DEADLOCK FALSE
INVARIANTS BuildsSound
PROPERTIES FinalStays Resumes
