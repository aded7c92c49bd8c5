CONSTANTS
  Convs = {c1}
  Questions = {q1, q2}
  NoConv = NoConv
  HistoryLength = 2
  Pages = {1, 2}
  MaxClicks = 2
SPECIFICATION FairSpec
INVARIANTS
  TypeOK
  ShownIsStored
  RemembersWhatWasShown
  NoTokenNoPage
PROPERTY
  SendingEnds
CHECK_DEADLOCK FALSE
