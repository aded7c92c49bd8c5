CONSTANTS
  d1 = d1
  d2 = d2
  kb = kb
  e1 = e1
  e2 = e2
  a1 = a1
  a2 = a2
  c0 = c0
  w1 = w1
  w2 = w2
  x1 = x1
  NoDoc = NoDoc
  Docs = {d1, d2}
  Kbs = {kb}
  Entities = {e1, e2}
  Names = {a1, a2}
  ChunkIds = {c0}
  Tasks = {w1, w2, x1}
  MaxTries <- mcMaxTries
  Kb <- mcKb
  Home <- mcHome
  Supersedes <- mcSupersedes
  Extractions <- mcExtractions
  Similar <- mcSimilar
  Job <- mcJob
SPECIFICATION GraphSpec
INVARIANTS
  GraphTypeOK
  CompleteUnlessDisturbed
  PayloadIsMentioned
PROPERTIES
  RemovedOnlyByOwnCascade
  ClosedStaysClosed
  AliasesLostOnlyIfStale
CHECK_DEADLOCK FALSE
