SPECIFICATION Spec
CONSTANTS
  Volumes = {0, 1, 2, 3}
  Keys = {"a", "b"}
  Origins = {0}
  Reads = {1, 2, 3, 4}
  Requester <- OverlapRequester
  Batch <- OverlapBatch
  After <- Together
  FanoutCap = 1
  Fabric = 10
  Spread = TRUE
  Hop <- FarOrigin
  Bounded = {0, 1}
  PutMayFail = TRUE
  PutsOverlap = TRUE
  MaxEvict = 1
  MaxPub = 5
INVARIANTS
  MissingInFlight
  BehindExact
CHECK_DEADLOCK FALSE
