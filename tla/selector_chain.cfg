SPECIFICATION Spec
CHECK_DEADLOCK FALSE
CONSTANTS
  Ids = {1, 2}
  Readings = {0, 1}
  Subjects = {"keys", "request"}
  MaxStages = 3
  Everything = Everything
  Nothing = Nothing
INVARIANTS
  KeyCovers
  GateRides
  BestLeads
