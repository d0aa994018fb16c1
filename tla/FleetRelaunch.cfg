CONSTANTS
  Launches = {A, B}
  NoLaunch = NoLaunch
  MaxN     = 1
  Capacity = 1
  Overlap  = FALSE
  Faults   = {"signal", "sigkill", "crash", "error"}
SPECIFICATION Spec
INVARIANTS
  NothingInherited
  OneVMPerInstance
  SocketFree
SYMMETRY Symmetry
