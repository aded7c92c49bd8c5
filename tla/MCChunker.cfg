CONSTANTS
  Documents <- mcDocuments
  TargetTokens = 4
  MaxTokens = 6
  OverlapTokens = 2
  BlankLine = 1
SPECIFICATION Spec
INVARIANTS
  TypeOK
  NothingLost
  BudgetKept
  ChunksAdvance
CHECK_DEADLOCK FALSE
