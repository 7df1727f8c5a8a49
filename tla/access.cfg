SPECIFICATION Spec
CONSTANTS
  Users = {u1}
  Supplies <- TestSupplies
  DbUrl = "url"
  Durations = {"1h"}
  ListenAddrs = {"addr"}
  Issuer = "dex"
  Unreadable = {2}
  PublicClients = {"k8s-mtp-cli"}
  NoToken = NoToken
  MaxKeys = 3
  MaxFaults = 2
  MaxEdits = 1
INVARIANTS
  TypeOK
PROPERTIES
  StartsAsMeant
  UpUnlessUnusable
  ServedInTheEnd
CHECK_DEADLOCK FALSE
