SPECIFICATION Spec
CONSTANTS
  Keys = {"a", "b", "c", "d"}
  Calls = {1, 2, 6}
  Writes <- MixedWrites
  Capacity = 4
  Directories = {"local"}
  MaxOps = 0
INVARIANTS
  NothingSilentlyFits
