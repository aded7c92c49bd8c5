CONSTANTS
  d1 = d1
  u1 = u1
  r1 = r1
  r2 = r2
  r3 = r3
  r4 = r4
  NoDoc = NoDoc
  Docs <- mcDocs
  Users <- mcUsers
  Requests <- mcRequests
  Supersedes <- mcSupersedes
  Owner <- mcOwner
  Faults <- mcFaults
  Offered <- mcOffered
  MaxHandlers = 1
  MaxJobs = 2
  MaxTries = 2
  MaxCrashes = 2
SPECIFICATION Spec
SYMMETRY mcSymmetry
PROPERTIES
  RefinesLifecycle
CHECK_DEADLOCK FALSE
