SPECIFICATION PlatformSpec
CONSTANTS
  Segment = {"a", "x", "y"}
  SpecNames <- OneSpecName
  TierValues = {"free", "gold"}
  Emails = {"e"}
  Users = {}
  MaxIds = 2
  CRNames <- OneName
  NoTenant = NoTenant
  MaxEdits = 0
  MaxDeletes = 1
  MaxFaults = 0
  MaxTampers = 0
  Clients = {c1}
  Keep = Keep
INVARIANTS
  NoOrphanControllerRow
PROPERTIES
  DeletedRowsFrozen
  ApiRowsUntouched
CHECK_DEADLOCK FALSE
