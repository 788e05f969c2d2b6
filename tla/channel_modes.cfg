SPECIFICATION FairChannelsSpec
CONSTANTS
  Transfers = {1, 2, 3, 4}
  Keys = {1, 2}
  Key <- ThreeAndOne
  Latency <- Setups
  Capacity <- Bandwidths
  Sizes = {0, 216, 432}
  Instants = {0, 324}
INVARIANTS
  TakesTurns
PROPERTIES
  SharesFairly
  AllCharged
