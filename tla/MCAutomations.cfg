CONSTANTS
  a1 = a1
  a2 = a2
  Autos <- mcAutos
  Schedules <- mcSchedules
  Minutes = 2
  MaxChanges = 1
  MaxJobs = 2
  MaxTries = 2
  MaxFaults = 1
SPECIFICATION Spec
SYMMETRY mcSymmetry
INVARIANTS
  TypeOK
  FiredOnce
  SentAgainOnlyAfterStop
  LossesPaid
PROPERTY
  DueIsMarked
CHECK_DEADLOCK FALSE
