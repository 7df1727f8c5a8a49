SPECIFICATION Spec
CONSTANTS
  Users = {u1}
  Addrs = {a1, a2}
  Unit = 2
  Burst = 2
  MaxTime = 6
  MaxRequests = 7
SYMMETRY Interchangeable
INVARIANTS
  TypeOK
  WindowBound
  PatienceRewarded
