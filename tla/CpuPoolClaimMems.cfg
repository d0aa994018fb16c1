CONSTANTS
  Parts = {"pools"}
  NumCpus = 4
  Nodes <- TwoNodes
  MaxVms = 2
  Vcpus = 2
  Ratios <- ThreeRatios
  Totals    = {0, 2047, 2048, 2056, 2057, 4096, 15987, 65536}
  Reserves  = {0, 2048, 4096}
  Mems      = {1, 127, 128, 1768, 1769, 1770, 3538, 3539, 10240}
  Templates = {1, 2}
  MaxFaults = 0
  MaxCrashes = 0
  InOrder = TRUE
  Spread    = {1, 2, 63, 64, 65, 128, 4096}
SPECIFICATION HostSpec
INVARIANT MemoryIsItsOwn
CHECK_DEADLOCK FALSE
