SPECIFICATION FairSpec
CONSTANTS
  Hosts = {1, 2}
  PrefillPool = {1, 2}
  DecodePool = {1}
  Requests = {1, 2, 3}
  Chain <- Chains
  Output <- OutputTwo
  BlockTokens = 2
  Landed <- Affine
  Previous <- TurnsBefore
  BlockTime = 2
  PullTime <- UnitPulls
  StepUnit = 1
  Threshold2 = 3
  SloTtft = 6
  SloTbt = 1
  Reuse = "peers"
  Rank = "ttft"
  Spread = FALSE
  Predict = TRUE
  Instant = FALSE
  Coupled = FALSE
  MaxLosses = 1
INVARIANTS
  SentOnceServed
  PlacedAwaited
  MemosAwaited
  PromisesDisjoint
  RowsAddUp
  HistoryFound
PROPERTIES
  AllServed
