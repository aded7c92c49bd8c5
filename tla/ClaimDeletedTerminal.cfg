CONSTANTS
  d1 = d1
  u1 = u1
  r1 = r1
  r2 = r2
  r3 = r3
  NoDoc = NoDoc
  Docs <- mcDocs
  Users <- mcUsers
  Requests <- mcRequests
  Supersedes <- mcSupersedes
  Owner <- mcOwner
  Faults <- mcFaults
  Offered <- mcOffered
  MaxHandlers = 2
  MaxJobs = 1
  MaxTries = 1
  MaxCrashes = 0
SPECIFICATION Spec
PROPERTIES
  DeletedIsTerminal
CHECK_DEADLOCK FALSE
