SPECIFICATION Spec
CONSTANTS
  Keys <- AllKeys
  Alphabet <- Letters
  Kind <- Kinds
  Size <- Sizes
  Mesh <- Meshes
  Volumes = {0, 1, 2}
  Host <- Hosts
  Clients = {1}
  Requests <- Queries
  Worlds = {1, 2, 3}
  NUM_TRAINERS = 1
  NUM_GENERATORS = 1
  ROTATE_EVERY = 1
  Digit <- Digits
  Tensors <- NoTensors
  Preloaded <- OtherKeys
  WaitsForClients = TRUE
  MaxSteps <- TrainerTwice
  MaxFaults <- Failures
  MaxAsks = 1
INVARIANTS
  StableListed
  BoardAddsUp
  StoreKept
  NobodyStranded
CHECK_DEADLOCK FALSE
