CONSTANTS
  Convs = {c1}
  Questions = {q1, q2}
  NoConv = NoConv
  HistoryLength = 2
  Pages = {1, 2}
  MaxClicks = 2
SPECIFICATION Spec
INVARIANT HashIsShown
CHECK_DEADLOCK FALSE
