SPECIFICATION Spec
CONSTANTS
  Keys = {"a", "b", "c", "d"}
  Calls = {1, 2, 3, 4}
  Writes <- CrowdedWrites
  Capacity = 4
  Directories = {"remote"}
  MaxOps = 0
INVARIANTS
  ResidentExact
