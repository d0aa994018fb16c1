CONSTANTS
  None = None
  Dense = 6
  Bins = 3
  BandCap = 1
  MinFit = 5
  HalfSecond = 1
  Recorded <- NineRuns
  MaxDirs = 3
  LabelSets <- SomeLabels
  ZoomN = 1
SPECIFICATION Spec
INVARIANT MeansNamed
CHECK_DEADLOCK FALSE
