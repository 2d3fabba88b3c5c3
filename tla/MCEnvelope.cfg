SPECIFICATION FairSpec
CHECK_DEADLOCK FALSE
CONSTANTS
  Clients = 2
  Units = 3
  Keystrokes = 2
  TTY = 1
  INPUT_CAP = 1
INVARIANTS
  EnvelopeSound
PROPERTIES
  WireIsTheGateways
  NothingSticks
