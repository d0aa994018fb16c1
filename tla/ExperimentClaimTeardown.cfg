CONSTANTS
  Ids = {0, 1, 2}
  Nobody = Nobody
  Stranger = Stranger
  NumVms = 2
  Rounds = 2
  Est = 2
  Delay = 1
  Before = 2
  After = 1
  Margin = 3
  Slowest = 2
SPECIFICATION Spec
INVARIANT LaunchedGoes
CHECK_DEADLOCK FALSE
