CONSTANTS
  Windows = 2
  Panes = 3
  Room = 2
  PENDING_CAP = 9
  BACKLOG_CAP = 2
  Batch = 2
  Events = 2
  Kinds = {"PumpBlocked", "PumpKeys", "PumpShed", "PumpLost", "Resize", "NextPane", "AskForWindow", "CloseChannel", "Detach", "Store", "CaptureFails", "Prints", "NewWindow", "Split", "SelectPane", "KillPane", "CloseWindow", "SessionsChange", "Exits", "Dies"}
SPECIFICATION Spec
INVARIANTS
  WindowsApart
  
PROPERTIES
  KeysDie
  WindowsLand
