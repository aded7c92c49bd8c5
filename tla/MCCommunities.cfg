CONSTANTS
  Rebuilds = {r1, r2, r3}
  RebuildTries = 2
  NoRebuild = NoRebuild
SPECIFICATION Spec
INVARIANTS
  TypeOK
  MembersAreRecent
  OneRunInTable
CHECK_DEADLOCK FALSE
