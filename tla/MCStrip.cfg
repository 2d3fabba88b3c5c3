SPECIFICATION StripSpec
CHECK_DEADLOCK FALSE
CONSTANTS
  CHANNEL_CAP = 2
  MaxBank = 1
  Session = {s1, s2, s3}
  Dark = Dark
  RowCounts = {1, 2}
  Radix = 2
SYMMETRY Sessions
INVARIANTS
  StripSound
  KeysGoWhereTheGlassSays
PROPERTIES
  WiresAndViewFollow
  ReplacementFirst
