SPECIFICATION Spec
CONSTANTS
  Segment = {"x", "y"}
  SpecNames <- TwoNames
  TierValues = {"free", "pro"}
  Emails = {"e1", "e2"}
  Users = {u1}
  MaxIds = 3
  Clients = {c1, c2}
  Keep = Keep
SYMMETRY Interchangeable
INVARIANTS
  TypeOK
  DeletedStaysGone
  MembersSound
  FirstOwnerStays
PROPERTIES
  DeletedRowsFrozen
