SPECIFICATION FairSpec
CONSTANTS
  Volumes = {0, 1, 2, 3}
  Keys = {"a"}
  Origins = {0}
  Reads = {1, 2, 3}
  Requester <- BurstRequester
  Batch <- WholeBatch
  After <- Together
  FanoutCap = 1
  Fabric = 10
  Spread = FALSE
  Hop <- FarOrigin
  Bounded = {1, 2, 3}
  PutMayFail = FALSE
  PutsOverlap = FALSE
  MaxEvict = 2
  MaxPub = 6
INVARIANTS
  FanoutBounded
  PlanCarriedOut
  RowsBacked
PROPERTIES
  ReadsComplete
