SPECIFICATION Spec
CONSTANTS
  Segment = {"a", "b", "c", "x", "y"}
  SpecNames <- OneSpecName
  TierValues = {"free"}
  Emails = {"e"}
  Users = {"u"}
  MaxIds = 2
  CRNames <- OneName
  NoTenant = NoTenant
  MaxEdits = 0
  MaxDeletes = 2
  MaxFaults = 1
  MaxTampers = 0
PROPERTIES
  EventuallyProvisioned
  DeletionCompletes
CHECK_DEADLOCK FALSE
