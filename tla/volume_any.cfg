SPECIFICATION Spec
CONSTANTS
  Keys = {"a", "b", "c", "d"}
  Calls = {1, 2, 3, 5, 6}
  Writes <- MixedWrites
  Capacity = 4
  Directories = {"none", "local", "remote"}
  MaxOps = 1
INVARIANTS
  StoreAsBooked
PROPERTIES
  RefusedOnlyWhenFull
  DropsColdest
