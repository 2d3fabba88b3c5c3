SPECIFICATION GlassSpec
CHECK_DEADLOCK FALSE
CONSTANTS
  Screen = 2
  Scrollback = 2
  Unit = 3
  WHEEL_LINES = 1
  COLUMNS = 3
  IsBlank <- MCBlank
  Wrapped <- MCWrapped
  Hit <- MCHit
  SELF_HITS = 4
  MaxLines = 2
  MaxHand = 3
PROPERTIES
  ViewKeepsItsPlace
  MarkFollowsItsText
  DragForgetsItsPath
  FindShowsTheHit
