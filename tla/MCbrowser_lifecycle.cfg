SPECIFICATION FairSpec
CONSTANTS
  MaxRuns = 2
  MaxEvents = 3
  DisplayModes = {"native", "rotate90"}
  DefaultMode = "native"
  GpuModes = {"auto"}
  Preloaded = {{"helper"}}
  LaunchMode = "last"
  StartMayFail = FALSE
INVARIANTS
  OneOfEach
  StopsEverything
  StatusOfThisRun
  ModulesOwned
PROPERTIES
  NoEmptyPage
CHECK_DEADLOCK FALSE
