SPECIFICATION Spec
CONSTANTS
  Segment = {"a", "b", "c", "x", "y"}
  SpecNames <- TwoSpecNames
  TierValues = {"free"}
  Emails = {"e"}
  Users = {"u"}
  MaxIds = 2
  CRNames <- TwoNames
  NoTenant = NoTenant
  MaxEdits = 0
  MaxDeletes = 0
  MaxFaults = 0
  MaxTampers = 0
INVARIANTS
  ActiveIsRecorded
PROPERTIES
  ProvisionedUnlessRefused
CHECK_DEADLOCK FALSE
