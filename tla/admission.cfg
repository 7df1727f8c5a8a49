SPECIFICATION Spec
CONSTANTS
  Controllers = {c1, c2}
  ApiServers = {a1}
  Nobody = Nobody
  MaxCrashes = 1
  MaxCerts = 4
  TenantNs <- TenantAX
  Pods <- UnsetAndBad
  NoPod = NoPod
  MaxRegenerations = 1
INVARIANTS
  TypeOK
  SchemaBeforeWork
  CertificatesAgree
  AdmittedChecked
PROPERTIES
  UpUnlessDirty
  CompliantAdmitted
CHECK_DEADLOCK FALSE
