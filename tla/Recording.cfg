CONSTANTS
  None = None
  Dense = 2
  Bins = 2
  BandCap = 1
  MinFit = 5
  HalfSecond = 1
  ZoomN = 2
  Interval = 2
  Jitter = 1
  MaxLate = 1
  Lag = 2
  Skew = 2
  Spread = 1
  Lead = 2
  Plans <- SmallPlans
  Gap = 1
  Horizon = 7
  Epoch = 100
SPECIFICATION Spec
INVARIANTS
  BusyNotIdle
  LongOnesMeasured
  TracesFaithful
CHECK_DEADLOCK FALSE
