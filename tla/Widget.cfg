SPECIFICATION WidgetFairSpec
CONSTANTS
  WidgetCalls = {s1, s2}
  Ends = {e1}
  ClosingLine = closing
  MaxWidgetTurns = 2
  NoCall = NoCall
INVARIANT WidgetInvariant
PROPERTY EndingEnds
CHECK_DEADLOCK FALSE
