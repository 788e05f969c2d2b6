SPECIFICATION FairSpec
CONSTANTS
  Passes = {1, 2, 3, 4}
  Cost <- PassCosts
  Decodes = {11, 12, 13, 14, 15}
  Output <- Outputs
  Due <- Arrivals
  MaxBatch = 2
  StepCost <- OneTick
  Coupled = TRUE
  HopsMayFail = TRUE
INVARIANTS
  NobodyForgotten
  OneOwner
  GapsCoverDecode
PROPERTIES
  NoOvertaking
  AllAnswered
