CONSTANTS
  Windows = 1
  Panes = 1
  Room = 1
  PENDING_CAP = 4
  BACKLOG_CAP = 2
  Batch = 3
  Events = 3
  Kinds = {"PumpBlocked", "PumpKeys", "PumpLost", "Resize", "NextPane", "CaptureFails", "Prints", "NewWindow", "Split", "SelectPane", "KillPane", "CloseWindow", "SessionsChange", "Exits", "Dies"}
SPECIFICATION FairSpec
INVARIANTS
  RepliesAnswerTheirQuestion
  PanesDrawnOnce
  HonestServerKept
PROPERTIES
  EndIsNoticed
