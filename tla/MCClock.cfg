SPECIFICATION FairClock
CONSTANTS
  UNATTENDED_AFTER = 5
  EFFECTS_BASE_FRAME = 2
  FrameSkip = 2
  Every = 8
  PerDay = 2
  JOINED = 5
  StepMs = 2
  LastStep = 3
  Jitter = FALSE
  MaxSkips = 1
INVARIANTS
  PictureKeepsUp
PROPERTIES
  CrittersKeepTime
  DesertedRests
