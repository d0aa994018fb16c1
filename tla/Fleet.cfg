CONSTANTS
  Launches = {A}
  NoLaunch = NoLaunch
  MaxN     = 3
  Capacity = 2
  Overlap  = FALSE
  Faults   = {"signal", "sigkill", "crash", "error"}
SPECIFICATION FairSpec
INVARIANTS
  KillListComplete
  TeardownEndsVMs
  TeardownFreesHost
  KillReaches
PROPERTIES
  KeepsPromise
  LaunchesEnd
