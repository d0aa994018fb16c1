CONSTANTS
  MaxFaults = 1
  MaxCrashes = 0
  InOrder = FALSE
SPECIFICATION Spec
INVARIANT VerifiedIsValid
