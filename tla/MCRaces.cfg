CONSTANTS
  d1 = d1
  u1 = u1
  r1 = r1
  r2 = r2
  r3 = r3
  NoDoc = NoDoc
  Docs <- mcDocs
  Users <- mcUsers
  Requests <- mcRequests
  Supersedes <- mcSupersedes
  Owner <- mcOwner
  Faults <- mcFaults
  Offered <- mcOffered
  MaxHandlers = 2
  MaxJobs = 2
  MaxTries = 2
  MaxCrashes = 1
SPECIFICATION Spec
SYMMETRY mcSymmetry
INVARIANTS
  TypeOK
  NoOrphanIngesting
  ModerationGate
  IngestedIsIndexed
  FileKept
CHECK_DEADLOCK FALSE
