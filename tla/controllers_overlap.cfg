SPECIFICATION OverlapSpec
CONSTANTS
  Segment = {"a", "x"}
  SpecNames <- OneSpecName
  TierValues = {"free"}
  Emails = {"e"}
  Users = {}
  MaxIds = 1
  CRNames <- OneName
  NoTenant = NoTenant
  MaxEdits = 0
  MaxDeletes = 1
  MaxFaults = 0
  MaxTampers = 0
  MaxOld = 1
PROPERTIES
  DroppedRowsFrozen
  EventuallyProvisioned
  LeftoversCollected
CHECK_DEADLOCK FALSE
