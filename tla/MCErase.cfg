CONSTANTS
  d1 = d1
  d2 = d2
  u1 = u1
  r1 = r1
  r2 = r2
  r3 = r3
  NoDoc = NoDoc
  Docs <- mcDocs
  Users <- mcUsers
  Requests <- mcRequests
  Supersedes <- mcSupersedes
  Owner <- mcOwner
  Faults <- mcFaults
  Offered <- mcOffered
  MaxHandlers = 2
  MaxJobs = 2
  MaxTries = 1
  MaxCrashes = 0
SPECIFICATION Spec
SYMMETRY mcSymmetry
INVARIANTS
  NoOrphanIngesting
  ErasedFileIsGone
  ReplacementIsIndexed
  IngestedIsIndexed
CHECK_DEADLOCK FALSE
