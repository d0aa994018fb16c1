CONSTANTS
  Ids <- ThreeIds
  Nobody = Nobody
  Stranger = Stranger
  NumVms = 2
  Rounds = 2
  Est = 2
  Delay = 1
  Before = 2
  After = 1
  Margin = 3
  Slowest = 2
  Domains <- ThreeDomains
  Names <- TwoNames
  NameOf <- DramTwice
  EnergyRange = 3
  Wrap = 2
  MaxStep = 1
  NoValue = NoValue
  MaxTicks = 3
  Duration = 3
  Resources <- PsiFiles
  Endpoints = 2
  Runs = 5
  Payloads <- ThreePayloads
  Benchmarks <- KnownMethods
  Orders <- OneOrder
  Iterations = 3
  WarmupBuffer = 1
  CombineSheets = TRUE
  Instances <- ThreeIds
SPECIFICATION ExperimentsSpec
INVARIANTS
  RowsComplete
  CollectorsOutlast
  FleetAsFound
  TornDown
  SharedIsLast
  RowsAreTrue
  ProcAddsUp
  StallsAreRead
  PayloadsOnce
  ReportsComplete
  WarmupLeftOut
  ExitTellsAll
  OutputInOrder
PROPERTIES
  RoundBarrier
  Ends
  SamplersEnd
  ClientsEnd
CHECK_DEADLOCK FALSE
