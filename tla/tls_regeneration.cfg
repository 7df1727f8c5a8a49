SPECIFICATION Spec
CONSTANTS
  Controllers = {c1}
  ApiServers = {}
  Nobody = Nobody
  MaxCrashes = 0
  MaxCerts = 2
  TenantNs <- TenantAX
  Pods <- OnlyGood
  NoPod = NoPod
  MaxRegenerations = 1
PROPERTIES
  RegenerationHeals
CHECK_DEADLOCK FALSE
