SPECIFICATION Spec
CONSTANTS
  Segment = {"a", "b", "c", "x", "y"}
  SpecNames <- OneSpecName
  TierValues = {"free", "pro"}
  Emails = {"e"}
  Users = {"u"}
  MaxIds = 1
  CRNames <- OneName
  NoTenant = NoTenant
  MaxEdits = 2
  MaxDeletes = 0
  MaxFaults = 1
  MaxTampers = 1
PROPERTIES
  DriftRepaired
  RowFollowsSpec
CHECK_DEADLOCK FALSE
