SPECIFICATION Spec
CONSTANTS
  Segment = {"a", "b", "c", "x", "y"}
  SpecNames <- OneSpecName
  TierValues = {"free", "pro"}
  Emails = {"e"}
  Users = {"u"}
  MaxIds = 2
  CRNames <- OneName
  NoTenant = NoTenant
  MaxEdits = 1
  MaxDeletes = 1
  MaxFaults = 1
  MaxTampers = 0
INVARIANTS
  TypeOK
  NoOrphanRow
  ProvisioningHeld
  ActiveIsGoverned
PROPERTIES
  NoLostEdit
  ImplementsLifecycle
CHECK_DEADLOCK FALSE
